---- MODULE Spec2Model ----
(***************************************************************************)
(* Model of the dependency-free XLSX export of the CXOne intent scraper:  *)
(*   buildZip      src/scrapeIntentsBrowser.js:319-352 (compact copy)      *)
(*   buildZipBlob  src/scrapeIntents.js:1088-1168      (verbose copy)      *)
(*   crc32         src/scrapeIntentsBrowser.js:354-361                     *)
(*   downloadExcel src/scrapeIntentsBrowser.js:221-308, and its two copies *)
(*                 src/scrapeIntents.js:517-602 and 907-1085               *)
(*                                                                         *)
(* A JavaScript number that the code handles as a 32-bit quantity is kept  *)
(* as a pair <<hi, lo>> with value hi * 65536 + lo, lo \in 0..65535 and    *)
(* hi \in -32768..65535, so that both the signed results of ^ and & and    *)
(* the unsigned results of >>> and of the literals 0xffffffff and          *)
(* 0xedb88320 have exactly one representation.                             *)
(* For the ZIP writer a JavaScript string is a sequence of UTF-16 code    *)
(* units; for the XML and CSV text of downloadExcel it is a sequence of    *)
(* pieces (see "the text helpers").                                        *)
(***************************************************************************)
EXTENDS Integers, Sequences, FiniteSets, TLC

\* ------------------------------------------------------------------ bounds
MaxParts == 2
MaxCrcLen == 3
MaxCol == 702
MaxTextLen == 3
MaxRows == 2

\* ------------------------------------------------------- bit arithmetic
RECURSIVE BitXor(_, _)
BitXor(a, b) ==
  IF a = 0 THEN b
  ELSE IF b = 0 THEN a
  ELSE (((a % 2) + (b % 2)) % 2) + 2 * BitXor(a \div 2, b \div 2)

RECURSIVE BitAnd(_, _)
BitAnd(a, b) ==
  IF a = 0 \/ b = 0 THEN 0
  ELSE ((a % 2) * (b % 2)) + 2 * BitAnd(a \div 2, b \div 2)

\* ------------------------------------------------ JavaScript numbers
W16 == 256 * 256

\* the number n (a small non-negative integer) as a JavaScript number
Num(n) == <<n \div W16, n % W16>>

\* the numbers the representation covers: -2^31 .. 2^32 - 1
IsNum32(n) == n[1] >= -32768 /\ n[1] < W16 /\ n[2] >= 0 /\ n[2] < W16

\* ToUint32: the value modulo 2^32
ToUint32(n) == <<n[1] % W16, n[2]>>

\* ToInt32: the value modulo 2^32, read as two's complement
ToInt32(n) ==
  LET h == n[1] % W16
  IN  <<IF h >= 32768 THEN h - W16 ELSE h, n[2]>>

\* a ^ b : both operands through ToInt32, the result is a signed 32-bit value
JsXor(a, b) ==
  LET x == ToUint32(a)
      y == ToUint32(b)
  IN  ToInt32(<<BitXor(x[1], y[1]), BitXor(x[2], y[2])>>)

\* a & b : both operands through ToInt32, the result is a signed 32-bit value
JsAnd(a, b) ==
  LET x == ToUint32(a)
      y == ToUint32(b)
  IN  ToInt32(<<BitAnd(x[1], y[1]), BitAnd(x[2], y[2])>>)

\* a >> k for k \in {0, 1}: the operand through ToInt32, sign fill
JsSshr(a, k) ==
  LET x == ToInt32(a)
  IN  IF k = 0 THEN x
      ELSE <<x[1] \div 2, (x[2] \div 2) + (x[1] % 2) * 32768>>

\* a >>> k for k \in {0, 1}: the operand through ToUint32, zero fill
JsUshr(a, k) ==
  LET x == ToUint32(a)
  IN  IF k = 0 THEN x
      ELSE <<x[1] \div 2, (x[2] \div 2) + (x[1] % 2) * 32768>>

\* --------------------------------------------------------------- crc32
NO_PRESET == <<0, 0>>

ALL_ONES == <<65535, 65535>>   \* 0xffffffff
POLY == <<60856, 33568>>       \* 0xedb88320
ZERO == <<0, 0>>

\* the inner loop: for (j = 0; j < 8; j++) c = (c >>> 1) ^ (c & 1 ? 0xedb88320 : 0)
RECURSIVE CrcInner(_, _)
CrcInner(c, j) ==
  IF j >= 8 THEN c
  ELSE IF JsAnd(c, Num(1)) # ZERO
       THEN CrcInner(JsXor(JsUshr(c, 1), POLY), j + 1)
       ELSE CrcInner(JsXor(JsUshr(c, 1), ZERO), j + 1)

\* the outer loop: for (i = 0; i < b.length; i++) { c ^= b[i]; <inner loop> }
\* (the test on c makes TLC evaluate the register at every pass, instead of
\* building a chain of suspended computations as long as the input)
RECURSIVE CrcOuter(_, _, _)
CrcOuter(c, b, i) ==
  IF i < Len(b) /\ IsNum32(c)
  THEN CrcOuter(CrcInner(JsXor(c, Num(b[i + 1])), 0), b, i + 1)
  ELSE c

crc32(b) == JsUshr(JsXor(CrcOuter(ALL_ONES, b, 0), ALL_ONES), 0)

\* ------------------------------------------------- TextEncoder.encode
IsHighSurrogate(u) == u >= 55296 /\ u <= 56319
IsLowSurrogate(u) == u >= 56320 /\ u <= 57343

RECURSIVE encode(_)
encode(s) ==
  IF s = <<>> THEN <<>>
  ELSE
    LET u == Head(s)
    IN  IF u < 128 THEN <<u>> \o encode(Tail(s))
        ELSE IF u < 2048
        THEN <<192 + (u \div 64), 128 + (u % 64)>> \o encode(Tail(s))
        ELSE IF IsHighSurrogate(u) /\ Len(s) >= 2 /\ IsLowSurrogate(s[2])
        THEN LET cp == 65536 + (u - 55296) * 1024 + (s[2] - 56320)
             IN  <<240 + (cp \div 262144), 128 + ((cp \div 4096) % 64),
                   128 + ((cp \div 64) % 64), 128 + (cp % 64)>>
                 \o encode(Tail(Tail(s)))
        ELSE IF IsHighSurrogate(u) \/ IsLowSurrogate(u)
        THEN <<239, 191, 189>> \o encode(Tail(s))
        ELSE <<224 + (u \div 4096), 128 + ((u \div 64) % 64), 128 + (u % 64)>>
             \o encode(Tail(s))

\* ------------------------------------------- Uint8Array and DataView
\* a buffer that keeps whatever the memory held instead of zeros
Uint8ArrayUncleared(n) == [k \in 1..n |-> 255]

Uint8Array(n) == [k \in 1..n |-> 0]

\* Uint8Array.prototype.set(src, pos), for a source that fits: pos + |src| <= |buf|
SetBytes(buf, src, pos) ==
  SubSeq(buf, 1, pos) \o src \o SubSeq(buf, pos + Len(src) + 1, Len(buf))

\* the two bytes of a 16-bit value and the four bytes of a 32-bit value
Bytes16(v, littleEndian) ==
  LET w == v % W16
  IN  IF littleEndian THEN <<w % 256, w \div 256>> ELSE <<w \div 256, w % 256>>

Bytes32(n, littleEndian) ==
  LET x == ToUint32(n)
  IN  IF littleEndian
      THEN <<x[2] % 256, x[2] \div 256, x[1] % 256, x[1] \div 256>>
      ELSE <<x[1] \div 256, x[1] % 256, x[2] \div 256, x[2] % 256>>

setUint16(buf, pos, v, littleEndian) == SetBytes(buf, Bytes16(v, littleEndian), pos)

setUint32(buf, pos, n, littleEndian) == SetBytes(buf, Bytes32(n, littleEndian), pos)

\* the writes with the littleEndian argument of setUint16 / setUint32 left
\* out, which makes a DataView write big-endian
RECURSIVE WriteDefaultEndian(_, _)
WriteDefaultEndian(buf, ws) ==
  IF ws = <<>> THEN buf
  ELSE LET w == Head(ws)
       IN  WriteDefaultEndian(CASE w[1] = "u16" -> setUint16(buf, w[2], w[3], FALSE)
                                [] w[1] = "u32" -> setUint32(buf, w[2], w[3], FALSE)
                                [] w[1] = "set" -> SetBytes(buf, w[3], w[2]),
                              Tail(ws))

\* a sequence of DataView / Uint8Array writes applied to a buffer, in order
RECURSIVE Write(_, _)
Write(buf, ws) ==
  IF ws = <<>> THEN buf
  ELSE LET w == Head(ws)
       IN  Write(CASE w[1] = "u16" -> setUint16(buf, w[2], w[3], TRUE)
                   [] w[1] = "u32" -> setUint32(buf, w[2], w[3], TRUE)
                   [] w[1] = "set" -> SetBytes(buf, w[3], w[2]),
                 Tail(ws))

\* new Blob(parts): the chunks one after the other
RECURSIVE Blob(_)
Blob(chunks) == IF chunks = <<>> THEN <<>> ELSE Head(chunks) \o Blob(Tail(chunks))

\* ------------------------------------------------- record signatures
SIG_LOCAL == 67324752     \* 0x04034b50
SIG_CENTRAL == 33639248   \* 0x02014b50
SIG_EOCD == 101010256     \* 0x06054b50
VERSION == 20

\* ----------------------------------------------- variants of the records
\* (each is one of the record builders below with one slip in it)

\* the end record with the total-entries field (offset 10) left unwritten
EocdOneCount(n, size, offset) ==
  Write(Uint8Array(22),
        << <<"u32", 0, Num(SIG_EOCD)>>,
           <<"u16", 8, n>>,
           <<"u32", 12, Num(size)>>, <<"u32", 16, Num(offset)>> >>)

\* the end record with the size and the offset of the directory exchanged
EocdSwapped(n, size, offset) ==
  Write(Uint8Array(22),
        << <<"u32", 0, Num(SIG_EOCD)>>, <<"u16", 4, 0>>, <<"u16", 6, 0>>,
           <<"u16", 8, n>>, <<"u16", 10, n>>,
           <<"u32", 12, Num(offset)>>, <<"u32", 16, Num(size)>>,
           <<"u16", 20, 0>> >>)

\* the central-directory entry recording the offset after the local record
\* instead of before it
CentralEntryOffsetAfter(nb, cr, sz, offset) ==
  Write(Uint8Array(46 + Len(nb)),
        << <<"u32", 0, Num(SIG_CENTRAL)>>, <<"u16", 4, VERSION>>, <<"u16", 6, VERSION>>,
           <<"u32", 16, cr>>, <<"u32", 20, Num(sz)>>, <<"u32", 24, Num(sz)>>,
           <<"u16", 28, Len(nb)>>, <<"u32", 42, Num(offset + 30 + Len(nb) + sz)>>,
           <<"set", 46, nb>> >>)

\* the central-directory entry with the CRC and the sizes at the offsets they
\* have in the local header (14, 18, 22) instead of 16, 20, 24
CentralEntryLocalOffsets(nb, cr, sz, offset) ==
  Write(Uint8Array(46 + Len(nb)),
        << <<"u32", 0, Num(SIG_CENTRAL)>>, <<"u16", 4, VERSION>>, <<"u16", 6, VERSION>>,
           <<"u16", 8, 0>>, <<"u16", 10, 0>>, <<"u16", 12, 0>>,
           <<"u32", 14, cr>>, <<"u32", 18, Num(sz)>>, <<"u32", 22, Num(sz)>>,
           <<"u16", 28, Len(nb)>>, <<"u16", 30, 0>>, <<"u16", 32, 0>>,
           <<"u16", 34, 0>>, <<"u16", 36, 0>>, <<"u32", 38, ZERO>>,
           <<"u32", 42, Num(offset)>>, <<"set", 46, nb>> >>)

\* the local header with the compressed-size field (offset 18) left at zero
LocalHeaderNoCompressedSize(nb, cr, sz) ==
  Write(Uint8Array(30 + Len(nb)),
        << <<"u32", 0, Num(SIG_LOCAL)>>, <<"u16", 4, VERSION>>,
           <<"u16", 6, 0>>, <<"u16", 8, 0>>, <<"u16", 10, 0>>, <<"u16", 12, 0>>,
           <<"u32", 14, cr>>, <<"u32", 22, Num(sz)>>,
           <<"u16", 26, Len(nb)>>, <<"u16", 28, 0>>, <<"set", 30, nb>> >>)

\* the end record two bytes short (no comment-length field), written by the
\* verbose copy's list of writes without the last
EocdShort(n, size, offset) ==
  Write(Uint8Array(20),
        << <<"u32", 0, Num(SIG_EOCD)>>, <<"u16", 4, 0>>, <<"u16", 6, 0>>,
           <<"u16", 8, n>>, <<"u16", 10, n>>,
           <<"u32", 12, Num(size)>>, <<"u32", 16, Num(offset)>> >>)

\* ------------------------------------- buildZip (compact copy), records
LocalHeaderCompact(nb, cr, sz) ==
  Write(Uint8Array(30 + Len(nb)),
        << <<"u32", 0, Num(SIG_LOCAL)>>, <<"u16", 4, VERSION>>,
           <<"u16", 8, 0>>, <<"u32", 14, cr>>,
           <<"u32", 18, Num(sz)>>, <<"u32", 22, Num(sz)>>,
           <<"u16", 26, Len(nb)>>, <<"set", 30, nb>> >>)

CentralEntryCompact(nb, cr, sz, offset) ==
  Write(Uint8Array(46 + Len(nb)),
        << <<"u32", 0, Num(SIG_CENTRAL)>>, <<"u16", 4, VERSION>>, <<"u16", 6, VERSION>>,
           <<"u32", 16, cr>>, <<"u32", 20, Num(sz)>>, <<"u32", 24, Num(sz)>>,
           <<"u16", 28, Len(nb)>>, <<"u32", 42, Num(offset)>>,
           <<"set", 46, nb>> >>)

EocdCompact(n, size, offset) ==
  Write(Uint8Array(22),
        << <<"u32", 0, Num(SIG_EOCD)>>,
           <<"u16", 8, n>>, <<"u16", 10, n>>,
           <<"u32", 12, Num(size)>>, <<"u32", 16, Num(offset)>> >>)

\* ---------------------------------- buildZipBlob (verbose copy), records
LocalHeaderVerbose(nb, cr, sz) ==
  Write(Uint8Array(30 + Len(nb)),
        << <<"u32", 0, Num(SIG_LOCAL)>>, <<"u16", 4, VERSION>>,
           <<"u16", 6, 0>>, <<"u16", 8, 0>>, <<"u16", 10, 0>>, <<"u16", 12, 0>>,
           <<"u32", 14, cr>>, <<"u32", 18, Num(sz)>>, <<"u32", 22, Num(sz)>>,
           <<"u16", 26, Len(nb)>>, <<"u16", 28, 0>>, <<"set", 30, nb>> >>)

CentralEntryVerbose(nb, cr, sz, offset) ==
  Write(Uint8Array(46 + Len(nb)),
        << <<"u32", 0, Num(SIG_CENTRAL)>>, <<"u16", 4, VERSION>>, <<"u16", 6, VERSION>>,
           <<"u16", 8, 0>>, <<"u16", 10, 0>>, <<"u16", 12, 0>>, <<"u16", 14, 0>>,
           <<"u32", 16, cr>>, <<"u32", 20, Num(sz)>>, <<"u32", 24, Num(sz)>>,
           <<"u16", 28, Len(nb)>>, <<"u16", 30, 0>>, <<"u16", 32, 0>>,
           <<"u16", 34, 0>>, <<"u16", 36, 0>>, <<"u32", 38, ZERO>>,
           <<"u32", 42, Num(offset)>>, <<"set", 46, nb>> >>)

EocdVerbose(n, size, offset) ==
  Write(Uint8Array(22),
        << <<"u32", 0, Num(SIG_EOCD)>>, <<"u16", 4, 0>>, <<"u16", 6, 0>>,
           <<"u16", 8, n>>, <<"u16", 10, n>>,
           <<"u32", 12, Num(size)>>, <<"u32", 16, Num(offset)>>,
           <<"u16", 20, 0>> >>)

\* ------------------------------------------------------------ the state
VARIABLES
  variant,   \* which copy of the builder runs: "buildZip" or "buildZipBlob"
  files,     \* the argument: a sequence of [name, content], both strings
  pc,        \* position in the builder: "loop", "cdloop", "eocd", "blob", "done"
  i,         \* number of files the first loop has processed
  parts,     \* the chunks pushed so far (Uint8Arrays)
  cd,        \* the stashed central-directory entries
  off,       \* the running offset
  j,         \* number of entries the second loop has appended
  cdOff,     \* central-directory offset
  cdSz,      \* central-directory size
  blob,      \* the returned Blob's bytes (<<>> until the builder returns)
  bytes,     \* crc32's argument
  result,    \* crc32's return value (<<>> until it has returned)
  call,      \* the text helper under call: "col", "colLetter", "esc", "escapeXml", ...
  arg,       \* its argument
  ret,       \* <<>> until it has returned, then <<the returned string>>
  copy,      \* which copy of downloadExcel runs: "browser", "compact" or "verbose"
  data,      \* downloadExcel's argument: the rows
  xpc,       \* position in downloadExcel
  r,         \* number of rows the data loop has written
  sr,        \* the row markup accumulated so far (sr / sheetRows)
  xparts,    \* the XML documents once built: [sheet, styles, wb, wbRels, rels, ct]
  archive,   \* the part list handed to the ZIP builder, in the order of its records
  csv,       \* the lines of the delimited text pushed so far (csv / csvRows)
  csvText,   \* <<>> until the text is downloaded, then <<the text>>
  script,    \* which scraper runs: "browser", "discovery", "verbose", "live", "static"
  dom,       \* the tree nodes in document order: [level, name, collapsed]
  spc,       \* position in the scraper
  togglers,  \* the collapsed togglers found by the scan of the current pass
  tk,        \* number of togglers of the current pass clicked so far
  intentList,\* the collected rows (intentList / rows)
  ci,        \* index of the click loop
  panel,     \* the node whose detail panel is shown (0: none)
  events     \* clicks, reads, downloads and file writes so far, in order

zipVars == <<variant, files, pc, i, parts, cd, off, j, cdOff, cdSz, blob>>
crcVars == <<bytes, result>>
fnVars == <<call, arg, ret>>
xlsVars == <<copy, data, xpc, r, sr, xparts, archive, csv, csvText>>

scrVars == <<script, dom, spc, togglers, tk, intentList, ci, panel, events>>

vars == <<zipVars, crcVars, fnVars, xlsVars, scrVars>>

\* ------------------------------------------------------------ the inputs
\* strings as UTF-16 code units: "a", "xl", "e-acute"
Names == {<<97>>, <<120, 108>>, <<233>>}

\* "", "<", the euro sign, a surrogate pair (U+1F600), a lone high surrogate
Contents == {<<>>, <<60>>, <<8364>>, <<55357, 56832>>, <<55357>>}

File == [name : Names, content : Contents]

SeqUpTo(S, n) == UNION {[1..m -> S] : m \in 0..n}

\* ------------------------------------------------- the builder, stepwise
LocalHeader(nb, cr, sz) ==
  IF variant = "buildZip" THEN LocalHeaderCompact(nb, cr, sz)
  ELSE LocalHeaderVerbose(nb, cr, sz)

CentralEntry(nb, cr, sz, offset) ==
  IF variant = "buildZip" THEN CentralEntryCompact(nb, cr, sz, offset)
  ELSE CentralEntryVerbose(nb, cr, sz, offset)

Eocd(n, size, offset) ==
  IF variant = "buildZip" THEN EocdCompact(n, size, offset)
  ELSE EocdVerbose(n, size, offset)

\* the running offset advanced by the header alone
NextOffHeaderOnly(offset, lh, cb) == offset + Len(lh)

\* off += lh.length + cb.length
NextOff(offset, lh, cb) == offset + Len(lh) + Len(cb)

ZipInit ==
  /\ variant \in {"buildZip", "buildZipBlob"}
  /\ files \in SeqUpTo(File, MaxParts)
  /\ pc = "loop"
  /\ i = 0
  /\ parts = <<>>
  /\ cd = <<>>
  /\ off = 0
  /\ j = 0
  /\ cdOff = 0
  /\ cdSz = 0
  /\ blob = <<>>

\* the first loop pushing the central-directory entry right after the payload
LoopBodyInterleaved ==
  /\ pc = "loop"
  /\ i < Len(files)
  /\ \E nb \in {encode(files[i + 1].name)}, cb \in {encode(files[i + 1].content)} :
       \E cr \in {crc32(cb)}, sz \in {Len(cb)} :
         \E lh \in {LocalHeader(nb, cr, sz)}, ce \in {CentralEntry(nb, cr, sz, off)} :
           /\ parts' = parts \o <<lh, cb, ce>>
           /\ cd' = Append(cd, ce)
           /\ off' = NextOff(off, lh, cb)
  /\ i' = i + 1
  /\ UNCHANGED <<variant, files, pc, j, cdOff, cdSz, blob>>

\* one pass of the first loop: local header and payload pushed, entry stashed
LoopBody ==
  /\ pc = "loop"
  /\ i < Len(files)
  /\ \E nb \in {encode(files[i + 1].name)}, cb \in {encode(files[i + 1].content)} :
       \E cr \in {crc32(cb)}, sz \in {Len(cb)} :
         \E lh \in {LocalHeader(nb, cr, sz)}, ce \in {CentralEntry(nb, cr, sz, off)} :
           /\ parts' = parts \o <<lh, cb>>
           /\ cd' = Append(cd, ce)
           /\ off' = NextOff(off, lh, cb)
  /\ i' = i + 1
  /\ UNCHANGED <<variant, files, pc, j, cdOff, cdSz, blob>>

\* the first loop ends: var cdOff = off, cdSz = 0
LoopExit ==
  /\ pc = "loop"
  /\ i >= Len(files)
  /\ cdOff' = off
  /\ cdSz' = 0
  /\ j' = 0
  /\ pc' = "cdloop"
  /\ UNCHANGED <<variant, files, i, parts, cd, off, blob>>

\* one pass of the second loop: parts.push(cd[j]); cdSz += cd[j].length
CdLoopBody ==
  /\ pc = "cdloop"
  /\ j < Len(cd)
  /\ parts' = Append(parts, cd[j + 1])
  /\ cdSz' = cdSz + Len(cd[j + 1])
  /\ j' = j + 1
  /\ UNCHANGED <<variant, files, pc, i, cd, off, cdOff, blob>>

\* the end record is built and pushed
PushEocd ==
  /\ pc = "cdloop"
  /\ j >= Len(cd)
  /\ parts' = Append(parts, Eocd(Len(files), cdSz, cdOff))
  /\ pc' = "blob"
  /\ UNCHANGED <<variant, files, i, cd, off, j, cdOff, cdSz, blob>>

\* return new Blob(parts, ...)
ReturnBlob ==
  /\ pc = "blob"
  /\ blob' = Blob(parts)
  /\ pc' = "done"
  /\ UNCHANGED <<variant, files, i, parts, cd, off, j, cdOff, cdSz>>

\* no text helper is under call
FnIdle ==
  /\ call = "none"
  /\ arg = <<>>
  /\ ret = <<>>

\* downloadExcel is not running
XlsIdle ==
  /\ copy = "none"
  /\ data = <<>>
  /\ xpc = "idle"
  /\ r = 0
  /\ sr = <<>>
  /\ xparts = <<>>
  /\ archive = <<>>
  /\ csv = <<>>
  /\ csvText = <<>>

\* no scraper is running
ScrIdle ==
  /\ script = "none"
  /\ dom = <<>>
  /\ spc = "idle"
  /\ togglers = <<>>
  /\ tk = 0
  /\ intentList = <<>>
  /\ ci = 0
  /\ panel = 0
  /\ events = <<>>

Init ==
  /\ ZipInit
  /\ bytes = <<>>
  /\ result = <<>>
  /\ FnIdle
  /\ XlsIdle
  /\ ScrIdle

Next ==
  \/ LoopBody /\ UNCHANGED <<crcVars, fnVars, xlsVars, scrVars>>
  \/ LoopExit /\ UNCHANGED <<crcVars, fnVars, xlsVars, scrVars>>
  \/ CdLoopBody /\ UNCHANGED <<crcVars, fnVars, xlsVars, scrVars>>
  \/ PushEocd /\ UNCHANGED <<crcVars, fnVars, xlsVars, scrVars>>
  \/ ReturnBlob /\ UNCHANGED <<crcVars, fnVars, xlsVars, scrVars>>

Spec == Init /\ [][Next]_vars

\* ------------------------------------------------- crc32 on its own
\* byte values that exercise the low bit, the high bit and the carries
ByteVals == {0, 1, 49, 128, 255}

\* the ASCII text "123456789"
CheckText == <<49, 50, 51, 52, 53, 54, 55, 56, 57>>

CrcInit ==
  /\ bytes \in SeqUpTo(ByteVals, MaxCrcLen) \cup {CheckText}
  /\ result = <<>>
  /\ variant = "buildZip"
  /\ files = <<>>
  /\ pc = "idle"
  /\ i = 0
  /\ parts = <<>>
  /\ cd = <<>>
  /\ off = 0
  /\ j = 0
  /\ cdOff = 0
  /\ cdSz = 0
  /\ blob = <<>>
  /\ FnIdle
  /\ XlsIdle
  /\ ScrIdle

\* crc32(bytes) is called and returns
CallCrc32 ==
  /\ result = <<>>
  /\ result' = crc32(bytes)
  /\ UNCHANGED bytes
  /\ UNCHANGED <<zipVars, fnVars, xlsVars, scrVars>>

CrcNext == CallCrc32

SpecCrc == CrcInit /\ [][CrcNext]_vars

\* ================================================= the text helpers
\* A JavaScript string is a sequence of pieces; a piece is one character,
\* or a fragment of a string literal of the source kept whole.  Everything
\* computed from data (cell text, column letters, row numbers) is kept
\* character by character.
\* A JavaScript value handed to the writer: a string, undefined or null.
Str(cs) == [kind |-> "string", chars |-> cs]
UNDEFINED == [kind |-> "undefined", chars |-> <<>>]
NULL == [kind |-> "null", chars |-> <<>>]

\* String.fromCharCode(n) for the codes of A..Z
fromCharCode(n) ==
  <<"A", "B", "C", "D", "E", "F", "G", "H", "I", "J", "K", "L", "M",
    "N", "O", "P", "Q", "R", "S", "T", "U", "V", "W", "X", "Y", "Z">>[n - 64]

\* the loop of col without its i--
RECURSIVE colLoopNoDecrement(_, _)
colLoopNoDecrement(n, s) ==
  IF n > 0
  THEN colLoopNoDecrement(n \div 26, <<fromCharCode(65 + (n % 26))>> \o s)
  ELSE s

\* while (i > 0) { i--; s = String.fromCharCode(65 + (i % 26)) + s; i = Math.floor(i / 26); }
RECURSIVE colLoop(_, _)
colLoop(n, s) ==
  IF n > 0
  THEN colLoop((n - 1) \div 26, <<fromCharCode(65 + ((n - 1) % 26))>> \o s)
  ELSE s

\* var s = ''; i++; <loop>; return s
col(n) == colLoop(n + 1, <<>>)

\* the same function in the verbose copy
RECURSIVE colLetterLoop(_, _)
colLetterLoop(idx, s) ==
  IF idx > 0
  THEN colLetterLoop((idx - 1) \div 26, <<fromCharCode(65 + ((idx - 1) % 26))>> \o s)
  ELSE s

colLetter(idx) == colLetterLoop(idx + 1, <<>>)

\* s.replace(/ch/g, rep) for a one-character pattern
RECURSIVE replace(_, _, _)
replace(s, ch, rep) ==
  IF s = <<>> THEN <<>>
  ELSE (IF Head(s) = ch THEN rep ELSE <<Head(s)>>) \o replace(Tail(s), ch, rep)

AMP == <<"&", "a", "m", "p", ";">>
LT == <<"&", "l", "t", ";">>
GT == <<"&", "g", "t", ";">>
QUOT == <<"&", "q", "u", "o", "t", ";">>
LF == <<"&", "#", "1", "0", ";">>

\* esc with the ampersand replaced last
escAmpLast(s) ==
  IF s.kind \in {"undefined", "null"} THEN <<>>
  ELSE replace(replace(replace(replace(replace(s.chars,
         "<", LT), ">", GT), "\"", QUOT), "\n", LF), "&", AMP)

\* esc of scrapeIntentsBrowser.js: five replacements, the ampersand first
esc(s) ==
  IF s.kind \in {"undefined", "null"} THEN <<>>
  ELSE replace(replace(replace(replace(replace(s.chars,
         "&", AMP), "<", LT), ">", GT), "\"", QUOT), "\n", LF)

\* esc of the compact copy in scrapeIntents.js: four replacements
escCompact(s) ==
  IF s.kind \in {"undefined", "null"} THEN <<>>
  ELSE replace(replace(replace(replace(s.chars,
         "&", AMP), "<", LT), ">", GT), "\"", QUOT)

\* escapeXml of the verbose copy in scrapeIntents.js: four replacements
escapeXml(s) ==
  IF s.kind \in {"undefined", "null"} THEN <<>>
  ELSE replace(replace(replace(replace(s.chars,
         "&", AMP), "<", LT), ">", GT), "\"", QUOT)

\* ------------------------------------------- the helpers on their own
\* the characters a text value is drawn from
TextChars == {"&", "<", ">", "\"", "\n", "a", ";"}

\* values that already look like entities, and the sample <b>&"quoted"</b>\n
EntityLike ==
  { <<"&", "a", "m", "p", ";">>, <<"&", "l", "t", ";">>, <<"&", "#", "1", "0", ";">>,
    <<"a", "&", "a", "m", "p", ";", "l", "t", ";">>,
    <<"<", "b", ">", "&", "\"", "q", "u", "o", "t", "e", "d", "\"", "<", "/", "b", ">", "\n">> }

Texts == SeqUpTo(TextChars, MaxTextLen) \cup EntityLike

Values == {Str(t) : t \in Texts} \cup {UNDEFINED, NULL}

ZipIdle ==
  /\ variant = "buildZip"
  /\ files = <<>>
  /\ pc = "idle"
  /\ i = 0
  /\ parts = <<>>
  /\ cd = <<>>
  /\ off = 0
  /\ j = 0
  /\ cdOff = 0
  /\ cdSz = 0
  /\ blob = <<>>

CrcIdle ==
  /\ bytes = <<>>
  /\ result = <<>>

TextInit ==
  /\ \/ call \in {"col", "colLetter"} /\ arg \in 0..MaxCol
     \/ call \in {"esc", "escCompact", "escapeXml"} /\ arg \in Values
  /\ ret = <<>>
  /\ ZipIdle
  /\ CrcIdle
  /\ XlsIdle
  /\ ScrIdle

\* the helper under call returns
CallCol ==
  /\ call = "col" /\ ret = <<>>
  /\ ret' = <<col(arg)>>
  /\ UNCHANGED <<call, arg>>

CallColLetter ==
  /\ call = "colLetter" /\ ret = <<>>
  /\ ret' = <<colLetter(arg)>>
  /\ UNCHANGED <<call, arg>>

CallEsc ==
  /\ call = "esc" /\ ret = <<>>
  /\ ret' = <<esc(arg)>>
  /\ UNCHANGED <<call, arg>>

CallEscCompact ==
  /\ call = "escCompact" /\ ret = <<>>
  /\ ret' = <<escCompact(arg)>>
  /\ UNCHANGED <<call, arg>>

CallEscapeXml ==
  /\ call = "escapeXml" /\ ret = <<>>
  /\ ret' = <<escapeXml(arg)>>
  /\ UNCHANGED <<call, arg>>

TextNext ==
  \/ CallCol /\ UNCHANGED <<zipVars, crcVars, xlsVars, scrVars>>
  \/ CallColLetter /\ UNCHANGED <<zipVars, crcVars, xlsVars, scrVars>>
  \/ CallEsc /\ UNCHANGED <<zipVars, crcVars, xlsVars, scrVars>>
  \/ CallEscCompact /\ UNCHANGED <<zipVars, crcVars, xlsVars, scrVars>>
  \/ CallEscapeXml /\ UNCHANGED <<zipVars, crcVars, xlsVars, scrVars>>

SpecText == TextInit /\ [][TextNext]_vars

\* ================================================= the XLSX writer
\* downloadExcel exists in three copies:
\*   "browser"  src/scrapeIntentsBrowser.js:221-308
\*   "compact"  src/scrapeIntents.js:517-602
\*   "verbose"  src/scrapeIntents.js:907-1085 (with downloadCsv)
\* Where a string literal of the source holds several attributes, it is cut
\* into pieces at attribute boundaries; the pieces in order spell the literal.

\* var headers = ['Category','Topic','Intent','Intent Percentage','Volume','Examples','Active']
headers ==
  << <<"C", "a", "t", "e", "g", "o", "r", "y">>,
     <<"T", "o", "p", "i", "c">>,
     <<"I", "n", "t", "e", "n", "t">>,
     <<"I", "n", "t", "e", "n", "t", " ", "P", "e", "r", "c", "e", "n", "t", "a", "g", "e">>,
     <<"V", "o", "l", "u", "m", "e">>,
     <<"E", "x", "a", "m", "p", "l", "e", "s">>,
     <<"A", "c", "t", "i", "v", "e">> >>

\* var keys = [...]
keys == <<"category", "topic", "intent", "intentPercentage", "volume", "examples", "active">>

\* v in place of v || ''
OrEmptyNoFallback(v) == v

\* v || '' : the empty string for undefined, null and ''
OrEmpty(v) == IF v.kind = "string" /\ v.chars # <<>> THEN v ELSE Str(<<>>)

\* the decimal text a number takes when it is concatenated to a string
RECURSIVE NumberToString(_)
NumberToString(n) ==
  IF n < 10 THEN <<(<<"0", "1", "2", "3", "4", "5", "6", "7", "8", "9">>)[n + 1]>>
  ELSE NumberToString(n \div 10) \o NumberToString(n % 10)

\* the escaping and column-letter helpers of the copy that runs
escOf(v) ==
  CASE copy = "browser" -> esc(v)
    [] copy = "compact" -> escCompact(v)
    [] OTHER -> escapeXml(v)

colOf(c) == IF copy = "verbose" THEN colLetter(c) ELSE col(c)

\* '<c r="' + col(c) + '1" t="inlineStr" s="1"><is><t>' + esc(headers[c]) + '</t></is></c>'
HeaderCell(c) ==
  <<"<c r=\"">> \o colOf(c) \o <<"1", "\"", " t=\"inlineStr\"", " s=\"1\"", "><is><t>">>
    \o escOf(Str(headers[c + 1])) \o <<"</t></is></c>">>

\* for (var c = 0; c < headers.length; c++) sr += <header cell>
RECURSIVE HeaderCells(_)
HeaderCells(c) ==
  IF c < Len(headers) THEN HeaderCell(c) \o HeaderCells(c + 1) ELSE <<>>

\* the header row without its closing sr += '</row>'
HeaderRowXmlUnclosed == <<"<row r=\"", "1", "\">">> \o HeaderCells(0)

\* var sr = '<row r="1">'; <loop>; sr += '</row>'
HeaderRowXml == <<"<row r=\"", "1", "\">">> \o HeaderCells(0) \o <<"</row>">>

\* var rn = r + 1
RowNumberOffByOne(n) == n + 1

\* var rn = r + 2
RowNumber(n) == n + 2

\* var style = c2 === 5 ? ' s="2"' : ''  (the browser copy only; the other
\* copies put no style attribute on a data cell)
style(c2) == IF copy = "browser" /\ c2 = 5 THEN <<" s=\"2\"">> ELSE <<>>

\* '<c r="' + col(c2) + rn + '" t="inlineStr"' + style + '><is><t>' + esc(data[r][keys[c2]] || '') + '</t></is></c>'
DataCell(row, rn, c2) ==
  <<"<c r=\"">> \o colOf(c2) \o NumberToString(rn) \o <<"\"", " t=\"inlineStr\"">> \o style(c2)
    \o <<"><is><t>">> \o escOf(OrEmpty(row[keys[c2 + 1]])) \o <<"</t></is></c>">>

\* for (var c2 = 0; c2 < keys.length; c2++) sr += <data cell>
RECURSIVE DataCells(_, _, _)
DataCells(row, rn, c2) ==
  IF c2 < Len(keys) THEN DataCell(row, rn, c2) \o DataCells(row, rn, c2 + 1) ELSE <<>>

\* sr += '<row r="' + rn + '">'; <loop>; sr += '</row>'
DataRowXml(row, rn) ==
  <<"<row r=\"">> \o NumberToString(rn) \o <<"\">">> \o DataCells(row, rn, 0) \o <<"</row>">>

\* var lr = data.length
LastRowNoHeader(d) == Len(d)

\* var lr = data.length + 1
LastRow(d) == Len(d) + 1

\* var lc = col(headers.length - 1)
LastCol == colOf(Len(headers) - 1)

\* sheetXml up to and including <sheetData> (the compact copies)
SheetHeadCompact ==
  << "<?xml version=\"1.0\" encoding=\"UTF-8\" standalone=\"yes\"?>",
     "<worksheet xmlns=\"http://schemas.openxmlformats.org/spreadsheetml/2006/main\">",
     "<sheetViews><sheetView tabSelected=\"1\" workbookViewId=\"0\">",
     "<pane",
     " ySplit=\"1\"",
     " topLeftCell=\"A2\"",
     " activePane=\"bottomLeft\" state=\"frozen\"/></sheetView></sheetViews>",
     "<cols><col min=\"1\" max=\"1\" width=\"25\" customWidth=\"1\"/><col min=\"2\" max=\"2\" width=\"30\" customWidth=\"1\"/><col min=\"3\" max=\"3\" width=\"45\" customWidth=\"1\"/><col min=\"4\" max=\"4\" width=\"18\" customWidth=\"1\"/><col min=\"5\" max=\"5\" width=\"12\" customWidth=\"1\"/><col min=\"6\" max=\"6\" width=\"60\" customWidth=\"1\"/><col min=\"7\" max=\"7\" width=\"10\" customWidth=\"1\"/></cols>",
     "<sheetData>" >>

\* sheetXml after the rows, up to lc + lr
SheetTailCompact ==
  << "</sheetData>",
     "<autoFilter",
     " ref=\"",
     "A1:" >>

\* sheetXml after lc + lr
SheetEndCompact ==
  << "\"/></worksheet>" >>

\* stylesXml of the browser copy
stylesXmlBrowser ==
  << "<?xml version=\"1.0\" encoding=\"UTF-8\" standalone=\"yes\"?>",
     "<styleSheet xmlns=\"http://schemas.openxmlformats.org/spreadsheetml/2006/main\">",
     "<fonts",
     " count=\"2\"",
     "><font><sz val=\"11\"/><name val=\"Calibri\"/></font><font><b/><sz val=\"11\"/><color rgb=\"FFFFFFFF\"/><name val=\"Calibri\"/></font></fonts>",
     "<fills",
     " count=\"3\"",
     "><fill><patternFill patternType=\"none\"/></fill><fill><patternFill patternType=\"gray125\"/></fill><fill><patternFill patternType=\"solid\"><fgColor rgb=\"FF4472C4\"/></patternFill></fill></fills>",
     "<borders count=\"1\"><border/></borders><cellStyleXfs count=\"1\">",
     "<xf/>",
     "</cellStyleXfs>",
     "<cellXfs",
     " count=\"3\"",
     ">",
     "<xf/>",
     "<xf fontId=\"1\" fillId=\"2\" applyFont=\"1\" applyFill=\"1\"><alignment horizontal=\"center\" vertical=\"center\"/></xf>",
     "<xf applyAlignment=\"1\"><alignment wrapText=\"1\" vertical=\"top\"/></xf>",
     "</cellXfs>",
     "</styleSheet>" >>

\* wbXml (the compact copies)
wbXmlCompact ==
  << "<?xml version=\"1.0\" encoding=\"UTF-8\" standalone=\"yes\"?>",
     "<workbook xmlns=\"http://schemas.openxmlformats.org/spreadsheetml/2006/main\" xmlns:r=\"http://schemas.openxmlformats.org/officeDocument/2006/relationships\">",
     "<sheets>",
     "<sheet",
     " name=\"Intents\" sheetId=\"1\"",
     " r:id=\"",
     "rId1",
     "\"",
     "/></sheets></workbook>" >>

\* wbRels with the worksheet looked for next to the workbook
wbRelsCompactFlatTarget ==
  << "<?xml version=\"1.0\" encoding=\"UTF-8\" standalone=\"yes\"?>",
     "<Relationships xmlns=\"http://schemas.openxmlformats.org/package/2006/relationships\">",
     "<Relationship",
     " Id=\"",
     "rId1",
     "\"",
     " Type=\"http://schemas.openxmlformats.org/officeDocument/2006/relationships/worksheet\"",
     " Target=\"",
     "sheet1.xml",
     "\"",
     "/>",
     "<Relationship",
     " Id=\"",
     "rId2",
     "\"",
     " Type=\"http://schemas.openxmlformats.org/officeDocument/2006/relationships/styles\"",
     " Target=\"",
     "styles.xml",
     "\"",
     "/></Relationships>" >>

\* wbRels (the compact copies)
wbRelsCompact ==
  << "<?xml version=\"1.0\" encoding=\"UTF-8\" standalone=\"yes\"?>",
     "<Relationships xmlns=\"http://schemas.openxmlformats.org/package/2006/relationships\">",
     "<Relationship",
     " Id=\"",
     "rId1",
     "\"",
     " Type=\"http://schemas.openxmlformats.org/officeDocument/2006/relationships/worksheet\"",
     " Target=\"",
     "worksheets",
     "/",
     "sheet1.xml",
     "\"",
     "/>",
     "<Relationship",
     " Id=\"",
     "rId2",
     "\"",
     " Type=\"http://schemas.openxmlformats.org/officeDocument/2006/relationships/styles\"",
     " Target=\"",
     "styles.xml",
     "\"",
     "/></Relationships>" >>

\* rels (the compact copies)
relsCompact ==
  << "<?xml version=\"1.0\" encoding=\"UTF-8\" standalone=\"yes\"?>",
     "<Relationships xmlns=\"http://schemas.openxmlformats.org/package/2006/relationships\">",
     "<Relationship",
     " Id=\"",
     "rId1",
     "\"",
     " Type=\"http://schemas.openxmlformats.org/officeDocument/2006/relationships/officeDocument\"",
     " Target=\"",
     "xl",
     "/",
     "workbook.xml",
     "\"",
     "/></Relationships>" >>

\* ct (the compact copies)
ctCompact ==
  << "<?xml version=\"1.0\" encoding=\"UTF-8\" standalone=\"yes\"?>",
     "<Types xmlns=\"http://schemas.openxmlformats.org/package/2006/content-types\">",
     "<Default Extension=\"rels\" ContentType=\"application/vnd.openxmlformats-package.relationships+xml\"/>",
     "<Default Extension=\"xml\" ContentType=\"application/xml\"/>",
     "<Override",
     " PartName=\"",
     "/",
     "xl",
     "/",
     "workbook.xml",
     "\"",
     " ContentType=\"application/vnd.openxmlformats-officedocument.spreadsheetml.sheet.main+xml\"/>",
     "<Override",
     " PartName=\"",
     "/",
     "xl",
     "/",
     "worksheets",
     "/",
     "sheet1.xml",
     "\"",
     " ContentType=\"application/vnd.openxmlformats-officedocument.spreadsheetml.worksheet+xml\"/>",
     "<Override",
     " PartName=\"",
     "/",
     "xl",
     "/",
     "styles.xml",
     "\"",
     " ContentType=\"application/vnd.openxmlformats-officedocument.spreadsheetml.styles+xml\"/></Types>" >>

\* stylesXml of the compact copy
stylesXmlCompact ==
  << "<?xml version=\"1.0\" encoding=\"UTF-8\" standalone=\"yes\"?>",
     "<styleSheet xmlns=\"http://schemas.openxmlformats.org/spreadsheetml/2006/main\">",
     "<fonts",
     " count=\"2\"",
     "><font><sz val=\"11\"/><name val=\"Calibri\"/></font><font><b/><sz val=\"11\"/><color rgb=\"FFFFFFFF\"/><name val=\"Calibri\"/></font></fonts>",
     "<fills",
     " count=\"3\"",
     "><fill><patternFill patternType=\"none\"/></fill><fill><patternFill patternType=\"gray125\"/></fill><fill><patternFill patternType=\"solid\"><fgColor rgb=\"FF4472C4\"/></patternFill></fill></fills>",
     "<borders count=\"1\"><border/></borders><cellStyleXfs count=\"1\">",
     "<xf/>",
     "</cellStyleXfs>",
     "<cellXfs",
     " count=\"2\"",
     ">",
     "<xf/>",
     "<xf fontId=\"1\" fillId=\"2\" applyFont=\"1\" applyFill=\"1\"><alignment horizontal=\"center\" vertical=\"center\"/></xf>",
     "</cellXfs>",
     "</styleSheet>" >>

\* sheetXml up to and including <sheetData> (the verbose copy)
SheetHeadVerbose ==
  << "<?xml version=\"1.0\" encoding=\"UTF-8\" standalone=\"yes\"?>",
     "\n<worksheet xmlns=\"http://schemas.openxmlformats.org/spreadsheetml/2006/main\"",
     "\n           xmlns:r=\"http://schemas.openxmlformats.org/officeDocument/2006/relationships\">",
     "\n  <sheetViews><sheetView tabSelected=\"1\" workbookViewId=\"0\">",
     "<pane",
     " ySplit=\"1\"",
     " topLeftCell=\"A2\"",
     " activePane=\"bottomLeft\" state=\"frozen\"/></sheetView></sheetViews>",
     "\n  <cols>",
     "\n    <col min=\"1\" max=\"1\" width=\"25\" customWidth=\"1\"/>",
     "\n    <col min=\"2\" max=\"2\" width=\"30\" customWidth=\"1\"/>",
     "\n    <col min=\"3\" max=\"3\" width=\"45\" customWidth=\"1\"/>",
     "\n    <col min=\"4\" max=\"4\" width=\"18\" customWidth=\"1\"/>",
     "\n    <col min=\"5\" max=\"5\" width=\"12\" customWidth=\"1\"/>",
     "\n    <col min=\"6\" max=\"6\" width=\"60\" customWidth=\"1\"/>",
     "\n    <col min=\"7\" max=\"7\" width=\"10\" customWidth=\"1\"/>",
     "\n  </cols>",
     "\n  ",
     "<sheetData>" >>

\* sheetXml after the rows, up to ${lastCol}${lastRow}
SheetTailVerbose ==
  << "</sheetData>",
     "\n  ",
     "<autoFilter",
     " ref=\"",
     "A1:" >>

\* sheetXml after ${lastCol}${lastRow}
SheetEndVerbose ==
  << "\"/>",
     "\n</worksheet>" >>

\* stylesXml (the verbose copy)
stylesXmlVerbose ==
  << "<?xml version=\"1.0\" encoding=\"UTF-8\" standalone=\"yes\"?>",
     "\n<styleSheet xmlns=\"http://schemas.openxmlformats.org/spreadsheetml/2006/main\">",
     "\n  <fonts",
     " count=\"2\"",
     ">",
     "\n    <font><sz val=\"11\"/><name val=\"Calibri\"/></font>",
     "\n    <font><b/><sz val=\"11\"/><color rgb=\"FFFFFFFF\"/><name val=\"Calibri\"/></font>",
     "\n  </fonts>",
     "\n  <fills",
     " count=\"3\"",
     ">",
     "\n    <fill><patternFill patternType=\"none\"/></fill>",
     "\n    <fill><patternFill patternType=\"gray125\"/></fill>",
     "\n    <fill><patternFill patternType=\"solid\"><fgColor rgb=\"FF4472C4\"/></patternFill></fill>",
     "\n  </fills>",
     "\n  <borders count=\"1\"><border/></borders>",
     "\n  <cellStyleXfs count=\"1\">",
     "<xf/>",
     "</cellStyleXfs>",
     "\n  ",
     "<cellXfs",
     " count=\"2\"",
     ">",
     "\n    ",
     "<xf/>",
     "\n    ",
     "<xf fontId=\"1\" fillId=\"2\" applyFont=\"1\" applyFill=\"1\"><alignment horizontal=\"center\" vertical=\"center\"/></xf>",
     "\n  ",
     "</cellXfs>",
     "\n</styleSheet>" >>

\* workbookXml (the verbose copy)
workbookXml ==
  << "<?xml version=\"1.0\" encoding=\"UTF-8\" standalone=\"yes\"?>",
     "\n<workbook xmlns=\"http://schemas.openxmlformats.org/spreadsheetml/2006/main\"",
     "\n          xmlns:r=\"http://schemas.openxmlformats.org/officeDocument/2006/relationships\">",
     "\n  <sheets>",
     "<sheet",
     " name=\"Intents\" sheetId=\"1\"",
     " r:id=\"",
     "rId1",
     "\"",
     "/></sheets>",
     "\n</workbook>" >>

\* workbookRelsXml (the verbose copy)
workbookRelsXml ==
  << "<?xml version=\"1.0\" encoding=\"UTF-8\" standalone=\"yes\"?>",
     "\n<Relationships xmlns=\"http://schemas.openxmlformats.org/package/2006/relationships\">",
     "\n  ",
     "<Relationship",
     " Id=\"",
     "rId1",
     "\"",
     " Type=\"http://schemas.openxmlformats.org/officeDocument/2006/relationships/worksheet\"",
     " Target=\"",
     "worksheets",
     "/",
     "sheet1.xml",
     "\"",
     "/>",
     "\n  ",
     "<Relationship",
     " Id=\"",
     "rId2",
     "\"",
     " Type=\"http://schemas.openxmlformats.org/officeDocument/2006/relationships/styles\"",
     " Target=\"",
     "styles.xml",
     "\"",
     "/>",
     "\n</Relationships>" >>

\* relsXml (the verbose copy)
relsXml ==
  << "<?xml version=\"1.0\" encoding=\"UTF-8\" standalone=\"yes\"?>",
     "\n<Relationships xmlns=\"http://schemas.openxmlformats.org/package/2006/relationships\">",
     "\n  ",
     "<Relationship",
     " Id=\"",
     "rId1",
     "\"",
     " Type=\"http://schemas.openxmlformats.org/officeDocument/2006/relationships/officeDocument\"",
     " Target=\"",
     "xl",
     "/",
     "workbook.xml",
     "\"",
     "/>",
     "\n</Relationships>" >>

\* contentTypesXml (the verbose copy)
contentTypesXml ==
  << "<?xml version=\"1.0\" encoding=\"UTF-8\" standalone=\"yes\"?>",
     "\n<Types xmlns=\"http://schemas.openxmlformats.org/package/2006/content-types\">",
     "\n  <Default Extension=\"rels\" ContentType=\"application/vnd.openxmlformats-package.relationships+xml\"/>",
     "\n  <Default Extension=\"xml\" ContentType=\"application/xml\"/>",
     "\n  ",
     "<Override",
     " PartName=\"",
     "/",
     "xl",
     "/",
     "workbook.xml",
     "\"",
     " ContentType=\"application/vnd.openxmlformats-officedocument.spreadsheetml.sheet.main+xml\"/>",
     "\n  ",
     "<Override",
     " PartName=\"",
     "/",
     "xl",
     "/",
     "worksheets",
     "/",
     "sheet1.xml",
     "\"",
     " ContentType=\"application/vnd.openxmlformats-officedocument.spreadsheetml.worksheet+xml\"/>",
     "\n  ",
     "<Override",
     " PartName=\"",
     "/",
     "xl",
     "/",
     "styles.xml",
     "\"",
     " ContentType=\"application/vnd.openxmlformats-officedocument.spreadsheetml.styles+xml\"/>",
     "\n</Types>" >>

SheetHead == IF copy = "verbose" THEN SheetHeadVerbose ELSE SheetHeadCompact
SheetTail == IF copy = "verbose" THEN SheetTailVerbose ELSE SheetTailCompact
SheetEnd == IF copy = "verbose" THEN SheetEndVerbose ELSE SheetEndCompact

\* var sheetXml = ... + '<sheetData>' + sr + '</sheetData>' + '<autoFilter ref="A1:' + lc + lr + '"/></worksheet>'
sheetXml(rowsXml, d) ==
  SheetHead \o rowsXml \o SheetTail \o LastCol \o NumberToString(LastRow(d)) \o SheetEnd

\* the six documents of the copy that runs
Documents(rowsXml, d) ==
  [ sheet |-> sheetXml(rowsXml, d),
    styles |-> CASE copy = "browser" -> stylesXmlBrowser
                 [] copy = "compact" -> stylesXmlCompact
                 [] OTHER -> stylesXmlVerbose,
    wb |-> IF copy = "verbose" THEN workbookXml ELSE wbXmlCompact,
    wbRels |-> IF copy = "verbose" THEN workbookRelsXml ELSE wbRelsCompact,
    rels |-> IF copy = "verbose" THEN relsXml ELSE relsCompact,
    ct |-> IF copy = "verbose" THEN contentTypesXml ELSE ctCompact ]

\* the part list with the worksheet ahead of the styles
FileListSheetFirst(p) ==
  << [name |-> <<"[Content_Types].xml">>, content |-> p.ct],
     [name |-> <<"_rels", "/", ".rels">>, content |-> p.rels],
     [name |-> <<"xl", "/", "workbook.xml">>, content |-> p.wb],
     [name |-> <<"xl", "/", "_rels", "/", "workbook.xml.rels">>, content |-> p.wbRels],
     [name |-> <<"xl", "/", "worksheets", "/", "sheet1.xml">>, content |-> p.sheet],
     [name |-> <<"xl", "/", "styles.xml">>, content |-> p.styles] >>

\* the array literal handed to buildZip / buildZipBlob (a part name is cut
\* at its slashes, like the paths in the documents that refer to it)
FileList(p) ==
  << [name |-> <<"[Content_Types].xml">>, content |-> p.ct],
     [name |-> <<"_rels", "/", ".rels">>, content |-> p.rels],
     [name |-> <<"xl", "/", "workbook.xml">>, content |-> p.wb],
     [name |-> <<"xl", "/", "_rels", "/", "workbook.xml.rels">>, content |-> p.wbRels],
     [name |-> <<"xl", "/", "styles.xml">>, content |-> p.styles],
     [name |-> <<"xl", "/", "worksheets", "/", "sheet1.xml">>, content |-> p.sheet] >>

\* The archive buildZip / buildZipBlob returns for the list fs, as the list
\* of its entries <<name, content>> in the order of its records: the first
\* loop of the builder pushes one local record per file in the order of fs
\* and the second loop one directory entry per file in the same order.  The
\* bytes of the records are the subject of the specification Spec.
ZipEntries(fs) == [k \in 1..Len(fs) |-> <<fs[k].name, fs[k].content>>]

\* array.join(sep)
RECURSIVE join(_, _)
join(ss, sep) ==
  IF ss = <<>> THEN <<>>
  ELSE IF Len(ss) = 1 THEN ss[1]
  ELSE ss[1] \o sep \o join(Tail(ss), sep)

\* the field without the doubling of its quotes
csvFieldNoDoubling(v) == <<"\"">> \o v.chars \o <<"\"">>

\* '"' + v.replace(/"/g,'""') + '"' for the string v
csvField(v) == <<"\"">> \o replace(v.chars, "\"", <<"\"", "\"">>) \o <<"\"">>

\* keys.map(function(k) { return '"' + (data[ri][k]||'').replace(/"/g,'""') + '"'; }).join(',')
CsvDataLine(row) ==
  join([k \in 1..Len(keys) |-> csvField(OrEmpty(row[keys[k]]))], <<",">>)

\* replace is a method of strings: (data[ri][k]||'').replace throws a
\* TypeError when the operand is undefined or null
CsvLineThrows(row) ==
  \E k \in 1..Len(keys) : OrEmpty(row[keys[k]]).kind # "string"

\* headers.join(',')
CsvHeaderLine == join(headers, <<",">>)

\* ------------------------------------------------- downloadExcel, stepwise
\* the rows the writer is run on: a row gives, for every declared key, the
\* value of data[r][key] (undefined where the row has no such property)
FullRow ==
  [k \in {keys[n] : n \in 1..Len(keys)} |->
     CASE k = "examples" -> Str(<<"a", "\n", "b">>)
       [] k = "volume" -> Str(<<>>)
       [] k = "intentPercentage" -> Str(<<"5", "%">>)
       [] OTHER -> Str(<<"a">>)]

SpecialRow ==
  [k \in {keys[n] : n \in 1..Len(keys)} |->
     CASE k = "category" -> Str(<<"&">>)
       [] k = "topic" -> Str(<<"<", "b", ">">>)
       [] k = "intent" -> Str(<<"\"", "q", "\"">>)
       [] k = "examples" -> Str(<<"\"", "\n", "&", "a", "m", "p", ";">>)
       [] k = "active" -> Str(<<",">>)
       [] OTHER -> Str(<<"a">>)]

RowPool ==
  { FullRow,
    SpecialRow,
    [k \in DOMAIN FullRow |-> UNDEFINED],
    [k \in DOMAIN FullRow |-> NULL],
    [FullRow EXCEPT !["examples"] = UNDEFINED],
    [FullRow EXCEPT !["category"] = NULL, !["active"] = UNDEFINED],
    [SpecialRow EXCEPT !["topic"] = UNDEFINED, !["volume"] = NULL],
    [k \in DOMAIN FullRow |-> IF k = "examples" THEN Str(<<"x">>) ELSE UNDEFINED] }

XlsInit ==
  /\ copy \in {"browser", "compact", "verbose"}
  /\ data \in SeqUpTo(RowPool, MaxRows)
  /\ xpc = "start"
  /\ r = 0
  /\ sr = <<>>
  /\ xparts = <<>>
  /\ archive = <<>>
  /\ csv = <<>>
  /\ csvText = <<>>
  /\ ZipIdle
  /\ CrcIdle
  /\ FnIdle
  /\ ScrIdle

\* the header row is written
HeaderRow ==
  /\ xpc = "start"
  /\ sr' = HeaderRowXml
  /\ r' = 0
  /\ xpc' = "rows"
  /\ UNCHANGED <<copy, data, xparts, archive, csv, csvText>>

\* one pass of the data loop: the row data[r] is written as sheet row r + 2
DataRow ==
  /\ xpc = "rows"
  /\ r < Len(data)
  /\ \E x \in {DataRowXml(data[r + 1], RowNumber(r))} : sr' = sr \o x
  /\ r' = r + 1
  /\ UNCHANGED <<copy, data, xpc, xparts, archive, csv, csvText>>

\* the data loop ends: lc, lr and the six documents are built
BuildDocuments ==
  /\ xpc = "rows"
  /\ r >= Len(data)
  /\ xparts' = Documents(sr, data)
  /\ xpc' = "zip"
  /\ UNCHANGED <<copy, data, r, sr, archive, csv, csvText>>

\* var blob = buildZip([...]); dl(blob, 'CXOne_Intents_Output.xlsx')
CallBuildZip ==
  /\ xpc = "zip"
  /\ archive' = ZipEntries(FileList(xparts))
  /\ xpc' = "csv"
  /\ UNCHANGED <<copy, data, r, sr, xparts, csv, csvText>>

\* var csv = [headers.join(',')]
CsvHeader ==
  /\ xpc = "csv"
  /\ csv' = <<CsvHeaderLine>>
  /\ xpc' = "csvrows"
  /\ UNCHANGED <<copy, data, r, sr, xparts, archive, csvText>>

\* one pass of the CSV loop: csv.push(<line of row ri>), ri = csv.length - 1
CsvLine ==
  /\ xpc = "csvrows"
  /\ Len(csv) - 1 < Len(data)
  /\ IF CsvLineThrows(data[Len(csv)])
     THEN xpc' = "threw" /\ UNCHANGED csv
     ELSE csv' = Append(csv, CsvDataLine(data[Len(csv)])) /\ UNCHANGED xpc
  /\ UNCHANGED <<copy, data, r, sr, xparts, archive, csvText>>

\* dl(new Blob([csv.join('\n')], {type:'text/csv'}), 'CXOne_Intents_Output.csv')
CsvDownload ==
  /\ xpc = "csvrows"
  /\ Len(csv) - 1 >= Len(data)
  /\ csvText' = <<join(csv, <<"\n">>)>>
  /\ xpc' = "done"
  /\ UNCHANGED <<copy, data, r, sr, xparts, archive, csv>>

XlsNext ==
  \/ HeaderRow /\ UNCHANGED <<zipVars, crcVars, fnVars, scrVars>>
  \/ DataRow /\ UNCHANGED <<zipVars, crcVars, fnVars, scrVars>>
  \/ BuildDocuments /\ UNCHANGED <<zipVars, crcVars, fnVars, scrVars>>
  \/ CallBuildZip /\ UNCHANGED <<zipVars, crcVars, fnVars, scrVars>>
  \/ CsvHeader /\ UNCHANGED <<zipVars, crcVars, fnVars, scrVars>>
  \/ CsvLine /\ UNCHANGED <<zipVars, crcVars, fnVars, scrVars>>
  \/ CsvDownload /\ UNCHANGED <<zipVars, crcVars, fnVars, scrVars>>

SpecXlsx == XlsInit /\ [][XlsNext]_vars

\* ================================================================ claims
\* ------------------------------------------- the reference CRC-32
\* A register is a sequence of 32 bits, least significant first.
Pow2(k) == 2 ^ k

BitsOfByte(v) == [k \in 1..32 |-> IF k <= 8 THEN (v \div Pow2(k - 1)) % 2 ELSE 0]

\* 0xEDB88320 = 1110 1101 1011 1000 1000 0011 0010 0000, written low bit first
RefPoly ==
  <<0, 0, 0, 0, 0, 1, 0, 0,  1, 1, 0, 0, 0, 0, 0, 1,
    0, 0, 0, 1, 1, 1, 0, 1,  1, 0, 1, 1, 0, 1, 1, 1>>

RefOnes == [k \in 1..32 |-> 1]

RefXor(x, y) == SubSeq([k \in 1..32 |-> (x[k] + y[k]) % 2], 1, 32)

RefShift(x) == SubSeq([k \in 1..32 |-> IF k < 32 THEN x[k + 1] ELSE 0], 1, 32)

RECURSIVE RefBits(_, _)
RefBits(reg, n) ==
  IF n = 0 THEN reg
  ELSE IF reg[1] = 1 THEN RefBits(RefXor(RefShift(reg), RefPoly), n - 1)
       ELSE RefBits(RefShift(reg), n - 1)

RECURSIVE RefBytes(_, _)
RefBytes(reg, b) ==
  IF b = <<>> \/ reg[1] > 1 THEN reg
  ELSE RefBytes(RefBits(RefXor(reg, BitsOfByte(Head(b))), 8), Tail(b))

RefCrc32(b) == RefXor(RefBytes(RefOnes, b), RefOnes)

\* the bits of a 32-bit number, least significant first
BitsOfNum(n) ==
  [k \in 1..32 |-> IF k <= 16 THEN (n[2] \div Pow2(k - 1)) % 2
                   ELSE (n[1] \div Pow2(k - 17)) % 2]

IsUint32(n) == n[1] >= 0 /\ n[1] < W16 /\ n[2] >= 0 /\ n[2] < W16

\* C9 as stated: crc32 of the ASCII text "123456789" returns 0xCBF53A1B.
C9_CheckValueAsClaimed ==
  (bytes = CheckText /\ result # <<>>) => result = <<52213, 14875>>

\* C9 amended: crc32 of the ASCII text "123456789" returns 0xCBF43926, the
\* published check value of the reflected CRC-32.
C9_CheckValue ==
  (bytes = CheckText /\ result # <<>>) => result = <<52212, 14630>>

C9_Witness == bytes = CheckText /\ result # <<>>

\* C10: for every byte sequence of bounded length, the empty one included,
\* what crc32 returns is a number in 0..2^32-1 whose bits are those of the
\* reference reflected CRC-32 (register preset to all ones; per byte an XOR
\* into the low byte, then 8 times a right shift with a conditional XOR of
\* 0xEDB88320; all bits inverted at the end).
C10_CrcIsReference ==
  result # <<>> =>
    /\ IsUint32(result)
    /\ BitsOfNum(result) = RefCrc32(bytes)

\* a full-length input whose checksum has the top bit set: the signed
\* intermediate values are negative on the way
C10_Witness ==
  /\ result # <<>>
  /\ Len(bytes) = MaxCrcLen
  /\ result[1] >= 32768

\* ------------------------------------------ reading an archive back
PK_LOCAL == <<80, 75, 3, 4>>
PK_CENTRAL == <<80, 75, 1, 2>>
PK_EOCD == <<80, 75, 5, 6>>

\* a little-endian 16-bit field
U16At(bs, pos) == bs[pos + 1] + 256 * bs[pos + 2]

\* a little-endian 32-bit field; a value of 2^31 or more, which no archive
\* of the sizes considered here holds in a size or offset field, reads as -1
U32At(bs, pos) ==
  IF bs[pos + 4] >= 128 THEN -1
  ELSE bs[pos + 1] + 256 * bs[pos + 2] + 65536 * bs[pos + 3] + 16777216 * bs[pos + 4]

\* the bytes pat stand in bs from position pos (0-based) on
HasAt(bs, pos, pat) ==
  /\ pos >= 0
  /\ pos + Len(pat) <= Len(bs)
  /\ SubSeq(bs, pos + 1, pos + Len(pat)) = pat

\* the four little-endian bytes of the reference CRC-32 of b
RefCrcBytes(b) ==
  LET reg == RefCrc32(b)
      ByteOf(m) == reg[8 * m + 1] + 2 * reg[8 * m + 2] + 4 * reg[8 * m + 3] + 8 * reg[8 * m + 4]
                   + 16 * reg[8 * m + 5] + 32 * reg[8 * m + 6] + 64 * reg[8 * m + 7]
                   + 128 * reg[8 * m + 8]
  IN  <<ByteOf(0), ByteOf(1), ByteOf(2), ByteOf(3)>>

\* what a reader reports for an entry it cannot read
CORRUPT == << <<-1>>, <<-1>> >>

\* one entry, read the way a ZIP reader does: the central-directory entry at
\* pos gives the name, the sizes and the local header's offset; the local
\* header there gives the place of the data; the stored data is checked
\* against the recorded CRC-32
ReadEntry(bs, pos) ==
  IF ~(HasAt(bs, pos, PK_CENTRAL) /\ pos + 46 <= Len(bs)) THEN CORRUPT
  ELSE
    LET nameLen == U16At(bs, pos + 28)
        method == U16At(bs, pos + 10)
        csize == U32At(bs, pos + 20)
        usize == U32At(bs, pos + 24)
        lho == U32At(bs, pos + 42)
    IN  IF \/ pos + 46 + nameLen > Len(bs)
           \/ method # 0
           \/ csize < 0
           \/ csize # usize
           \/ ~(HasAt(bs, lho, PK_LOCAL) /\ lho + 30 <= Len(bs))
        THEN CORRUPT
        ELSE
          LET start == lho + 30 + U16At(bs, lho + 26) + U16At(bs, lho + 28)
          IN  IF start + csize > Len(bs) THEN CORRUPT
              ELSE
                LET payload == SubSeq(bs, start + 1, start + csize)
                IN  IF SubSeq(bs, pos + 17, pos + 20) # RefCrcBytes(payload)
                    THEN CORRUPT
                    ELSE <<SubSeq(bs, pos + 47, pos + 46 + nameLen), payload>>

\* the length of the central-directory entry at pos (0 when there is none)
EntryLen(bs, pos) ==
  IF pos >= 0 /\ pos + 46 <= Len(bs)
  THEN 46 + U16At(bs, pos + 28) + U16At(bs, pos + 30) + U16At(bs, pos + 32)
  ELSE 0

RECURSIVE ReadEntries(_, _, _)
ReadEntries(bs, pos, n) ==
  IF n = 0 THEN <<>>
  ELSE <<ReadEntry(bs, pos)>> \o ReadEntries(bs, pos + EntryLen(bs, pos), n - 1)

\* the end record is the last 22 bytes (the builder writes no comment)
ReadZip(bs) ==
  LET e == Len(bs) - 22
  IN  IF ~HasAt(bs, e, PK_EOCD) \/ U32At(bs, e + 16) < 0 THEN <<CORRUPT>>
      ELSE ReadEntries(bs, U32At(bs, e + 16), U16At(bs, e + 10))

\* ------------------------------------------ what the parts should give
NB(k) == encode(files[k].name)
CB(k) == encode(files[k].content)

RECURSIVE SumLocal(_)
SumLocal(n) == IF n = 0 THEN 0 ELSE SumLocal(n - 1) + 30 + Len(NB(n)) + Len(CB(n))

RECURSIVE SumCentral(_)
SumCentral(n) == IF n = 0 THEN 0 ELSE SumCentral(n - 1) + 46 + Len(NB(n))

\* the total length of the first n chunks pushed
RECURSIVE ChunkLen(_)
ChunkLen(n) == IF n = 0 THEN 0 ELSE ChunkLen(n - 1) + Len(parts[n])

NParts == Len(files)

\* C1: the local-header offset recorded in part k's central-directory entry is
\* the sum of the lengths (30 + name length + payload length) of the local
\* records of the parts before k, which is the length of what had been pushed
\* when part k's local header was pushed; the running offset is that sum.
C1_OffsetInvariant ==
  /\ off = SumLocal(i)
  /\ \A k \in 1..Len(cd) :
       /\ U32At(cd[k], 42) = SumLocal(k - 1)
       /\ U32At(cd[k], 42) = ChunkLen(2 * (k - 1))

C1_Witness ==
  /\ pc = "done"
  /\ Len(cd) >= 2
  /\ U32At(cd[2], 42) > 31

\* C2: the archive read back (end record, central directory at the recorded
\* offset, each local header at its recorded offset, name length and size
\* fields) gives the parts' name bytes and payload bytes, in the parts' order.
\* (A name is compared as the bytes enc.encode gives it: the flags field is 0,
\* so the archive does not say in which code page a reader is to decode them.)
C2_RoundTrip ==
  pc = "done" => ReadZip(blob) = [k \in 1..NParts |-> <<NB(k), CB(k)>>]

C2_Witness ==
  /\ pc = "done"
  /\ NParts = 2
  /\ files[1].name # files[2].name
  /\ Len(ReadZip(blob)) = 2
  /\ ReadZip(blob)[2][2] = <<240, 159, 152, 128>>

\* C3: one central-directory entry is written per part, and both entry-count
\* fields of the end record hold the number of parts.
C3_EntryCounts ==
  /\ Len(cd) = i
  /\ pc \in {"blob", "done"} =>
       /\ Len(parts) = 3 * NParts + 1
       /\ \A k \in 1..NParts : HasAt(parts[2 * NParts + k], 0, PK_CENTRAL)
       /\ \A q \in 1..Len(parts) :
            HasAt(parts[q], 0, PK_CENTRAL) => q \in (2 * NParts + 1)..(3 * NParts)
       /\ U16At(parts[Len(parts)], 8) = NParts
       /\ U16At(parts[Len(parts)], 10) = NParts
  /\ pc = "done" =>
       /\ U16At(blob, Len(blob) - 22 + 8) = NParts
       /\ U16At(blob, Len(blob) - 22 + 10) = NParts

C3_Witness ==
  /\ pc = "done"
  /\ NParts = 2
  /\ U16At(blob, Len(blob) - 22 + 10) = 2

\* C4: the CRC-32, compressed-size, uncompressed-size and name-length fields
\* and the name bytes of a part's central-directory entry equal those of its
\* local file header.
C4_CentralMatchesLocal ==
  \A k \in 1..Len(cd) :
    LET lh == parts[2 * k - 1]
        ce == cd[k]
    IN  /\ SubSeq(ce, 17, 20) = SubSeq(lh, 15, 18)
        /\ SubSeq(ce, 21, 24) = SubSeq(lh, 19, 22)
        /\ SubSeq(ce, 25, 28) = SubSeq(lh, 23, 26)
        /\ SubSeq(ce, 29, 30) = SubSeq(lh, 27, 28)
        /\ SubSeq(ce, 47, Len(ce)) = SubSeq(lh, 31, Len(lh))
        /\ Len(ce) - 46 = U16At(ce, 28)

C4_Witness ==
  /\ pc = "done"
  /\ Len(cd) = 2
  /\ SubSeq(cd[2], 17, 20) # <<0, 0, 0, 0>>
  /\ U32At(cd[2], 20) = 4
  /\ U16At(cd[2], 28) = 2

\* C5: every entry is stored: the compression method is 0 in the local header
\* and in the central-directory entry, and the compressed-size and
\* uncompressed-size fields of both hold the byte length of the UTF-8 payload,
\* which is the chunk that follows the local header.
C5_Stored ==
  \A k \in 1..Len(cd) :
    LET lh == parts[2 * k - 1]
        ce == cd[k]
    IN  /\ parts[2 * k] = CB(k)
        /\ U16At(lh, 8) = 0
        /\ U16At(ce, 10) = 0
        /\ U32At(lh, 18) = Len(CB(k))
        /\ U32At(lh, 22) = Len(CB(k))
        /\ U32At(ce, 20) = Len(CB(k))
        /\ U32At(ce, 24) = Len(CB(k))

\* a payload whose byte length (3) differs from its length in code units (1)
C5_Witness ==
  /\ Len(cd) >= 1
  /\ Len(files[1].content) = 1
  /\ U32At(parts[1], 18) = 3
  /\ U32At(cd[1], 24) = 3

\* C6: the output is, in this order, for each part in input order its local
\* header with the name bytes and then the payload bytes; then the
\* central-directory entries in the order of the parts; then one 22-byte end
\* record, the last bytes of the archive. No central-directory entry is pushed
\* before the last local record.
C6_Layout ==
  /\ \A k \in 1..i :
       /\ HasAt(parts[2 * k - 1], 0, PK_LOCAL)
       /\ Len(parts[2 * k - 1]) = 30 + Len(NB(k))
       /\ HasAt(parts[2 * k - 1], 30, NB(k))
       /\ parts[2 * k] = CB(k)
  /\ Len(parts) > 2 * i => i = NParts
  /\ pc = "loop" => Len(parts) = 2 * i
  /\ pc = "cdloop" => Len(parts) = 2 * NParts + j
  /\ \A m \in 1..j :
       /\ parts[2 * NParts + m] = cd[m]
       /\ HasAt(cd[m], 0, PK_CENTRAL)
       /\ HasAt(cd[m], 46, NB(m))
       /\ Len(cd[m]) = 46 + Len(NB(m))
  /\ pc \in {"blob", "done"} =>
       /\ j = NParts
       /\ Len(parts) = 3 * NParts + 1
       /\ Len(parts[Len(parts)]) = 22
       /\ HasAt(parts[Len(parts)], 0, PK_EOCD)
  /\ pc = "done" =>
       /\ Len(blob) = SumLocal(NParts) + SumCentral(NParts) + 22
       /\ \A k \in 1..NParts :
            /\ HasAt(blob, SumLocal(k - 1), PK_LOCAL)
            /\ HasAt(blob, SumLocal(k - 1) + 30, NB(k))
            /\ HasAt(blob, SumLocal(k - 1) + 30 + Len(NB(k)), CB(k))
            /\ HasAt(blob, SumLocal(NParts) + SumCentral(k - 1), PK_CENTRAL)
            /\ HasAt(blob, SumLocal(NParts) + SumCentral(k - 1) + 46, NB(k))
       /\ HasAt(blob, Len(blob) - 22, PK_EOCD)

C6_Witness ==
  /\ pc = "done"
  /\ NParts = 2
  /\ NB(1) # NB(2)
  /\ CB(1) # CB(2)
  /\ HasAt(blob, SumLocal(2) + SumCentral(1) + 46, NB(2))

\* C7: in the end record the central-directory offset is the total length of
\* the local records and the central-directory size is the total length of the
\* central-directory entries (46 + name length each).
C7_EocdFields ==
  pc \in {"blob", "done"} =>
    LET eo == parts[Len(parts)]
    IN  /\ U32At(eo, 16) = SumLocal(NParts)
        /\ U32At(eo, 16) = ChunkLen(2 * NParts)
        /\ U32At(eo, 12) = SumCentral(NParts)
        /\ U32At(eo, 12) = ChunkLen(Len(parts) - 1) - ChunkLen(2 * NParts)

C7_Witness ==
  /\ pc = "done"
  /\ NParts = 2
  /\ U32At(parts[Len(parts)], 16) > 62
  /\ U32At(parts[Len(parts)], 12) > 93

\* C8: given no parts the builder runs to its end, and the archive is one
\* 22-byte end record: the signature, then entry counts 0, central-directory
\* size 0 and central-directory offset 0.
C8_EmptyArchive ==
  files = <<>> =>
    /\ pc # "done" => ENABLED Next
    /\ pc = "done" =>
         blob = <<80, 75, 5, 6, 0, 0, 0, 0, 0, 0, 0, 0, 0, 0, 0, 0, 0, 0, 0, 0, 0, 0>>

C8_Witness ==
  /\ files = <<>>
  /\ pc = "done"
  /\ Len(blob) = 22

\* ------------------------------------------- column letters (C11)
\* the 26 digits of the bijective numeral system, in order of value 1..26
BijDigits == <<"A", "B", "C", "D", "E", "F", "G", "H", "I", "J", "K", "L", "M",
               "N", "O", "P", "Q", "R", "S", "T", "U", "V", "W", "X", "Y", "Z">>

IsBijNumeral(s) == Len(s) >= 1 /\ \A k \in 1..Len(s) : \E d \in 1..26 : BijDigits[d] = s[k]

DigitValue(ch) == CHOOSE d \in 1..26 : BijDigits[d] = ch

\* the number a bijective base-26 numeral denotes: no digit is worth zero
RECURSIVE BijValue(_)
BijValue(s) ==
  IF s = <<>> THEN 0
  ELSE 26 * BijValue(SubSeq(s, 1, Len(s) - 1)) + DigitValue(s[Len(s)])

\* C11: for every zero-based index i of the range, col(i) and colLetter(i)
\* return a non-empty word over A..Z that denotes i + 1 in bijective base 26
\* (so two indices with the same letters are the same index); index 0 gives
\* "A", 25 gives "Z", 26 gives "AA" and 701 gives "ZZ".
C11_ColIsBijectiveNumeral ==
  (call \in {"col", "colLetter"} /\ ret # <<>>) =>
    /\ IsBijNumeral(ret[1])
    /\ BijValue(ret[1]) = arg + 1
    /\ (arg = 0 => ret[1] = <<"A">>)
    /\ (arg = 25 => ret[1] = <<"Z">>)
    /\ (arg = 26 => ret[1] = <<"A", "A">>)
    /\ (arg = 701 => ret[1] = <<"Z", "Z">>)

\* col has returned "ZZ" for index 701
C11_Witness == call = "col" /\ arg = 701 /\ ret = << <<"Z", "Z">> >>

\* ------------------------------------------- escaping (C12, C13)
\* the entity the escaping rule gives a character, in one pass over the text
RefEntity(ch) ==
  CASE ch = "&" -> <<"&", "a", "m", "p", ";">>
    [] ch = "<" -> <<"&", "l", "t", ";">>
    [] ch = ">" -> <<"&", "g", "t", ";">>
    [] ch = "\"" -> <<"&", "q", "u", "o", "t", ";">>
    [] ch = "\n" -> <<"&", "#", "1", "0", ";">>
    [] OTHER -> <<ch>>

RECURSIVE RefEscape(_)
RefEscape(s) == IF s = <<>> THEN <<>> ELSE RefEntity(Head(s)) \o RefEscape(Tail(s))

\* C12: in every copy of the writer the escaped form of a text value has each
\* of &, <, >, " and newline replaced by its entity (&amp; &lt; &gt; &quot;
\* &#10;) and holds no raw <, >, " or newline (an & only opens an entity).
C12_AllFiveEscaped ==
  (call \in {"esc", "escCompact", "escapeXml"} /\ ret # <<>> /\ arg.kind = "string") =>
    /\ ret[1] = RefEscape(arg.chars)
    /\ \A k \in 1..Len(ret[1]) : ret[1][k] \notin {"<", ">", "\"", "\n"}

\* what an XML parser reports for character data it rejects
MALFORMED == <<"(malformed)">>

\* the character references a parser resolves in character data
XmlEntities ==
  { << <<"&", "a", "m", "p", ";">>, "&" >>,
    << <<"&", "l", "t", ";">>, "<" >>,
    << <<"&", "g", "t", ";">>, ">" >>,
    << <<"&", "q", "u", "o", "t", ";">>, "\"" >>,
    << <<"&", "a", "p", "o", "s", ";">>, "'" >>,
    << <<"&", "#", "1", "0", ";">>, "\n" >>,
    << <<"&", "#", "x", "A", ";">>, "\n" >> }

StartsWith(s, p) == Len(s) >= Len(p) /\ SubSeq(s, 1, Len(p)) = p

\* the text a parser reads back from the character data s of an element:
\* references resolved, a carriage return read as a line feed, every other
\* character as it stands; a raw < or an & that opens no reference is rejected
RECURSIVE XmlText(_)
XmlText(s) ==
  IF s = <<>> THEN <<>>
  ELSE IF Head(s) = "<" THEN MALFORMED
  ELSE IF Head(s) = "&"
       THEN IF \E e \in XmlEntities : StartsWith(s, e[1])
            THEN LET e == CHOOSE x \in XmlEntities : StartsWith(s, x[1])
                     rest == XmlText(SubSeq(s, Len(e[1]) + 1, Len(s)))
                 IN  IF rest = MALFORMED THEN MALFORMED ELSE <<e[2]>> \o rest
            ELSE MALFORMED
  ELSE LET rest == XmlText(Tail(s))
       IN  IF rest = MALFORMED THEN MALFORMED
           ELSE <<IF Head(s) = "\r" THEN "\n" ELSE Head(s)>> \o rest

\* C13: for every text value over &, <, >, ", newline and letters (values
\* that already read like "&amp;" or "&lt;" included), an XML parser reads
\* the escaped value back as the original value, in every copy.
C13_EscapeRoundTrip ==
  (call \in {"esc", "escCompact", "escapeXml"} /\ ret # <<>> /\ arg.kind = "string") =>
    XmlText(ret[1]) = arg.chars

\* esc has returned "&amp;amp;" for the value "&amp;"
C13_Witness ==
  /\ call = "esc"
  /\ arg = Str(<<"&", "a", "m", "p", ";">>)
  /\ ret = << <<"&", "a", "m", "p", ";", "a", "m", "p", ";">> >>

\* ------------------------------------------- reading the worksheet back
\* the positions of a piece in a document, the k-th of a set of positions,
\* and the first position of a piece at or after a place (0 when none)
PosOf(s, piece) == {p \in 1..Len(s) : s[p] = piece}

NthOf(S, k) == CHOOSE p \in S : Cardinality({q \in S : q < p}) = k - 1

NextAt(s, from, piece) ==
  LET c == {p \in from..Len(s) : s[p] = piece}
  IN  IF c = {} THEN 0 ELSE CHOOSE p \in c : \A q \in c : p <= q

DecDigits == <<"0", "1", "2", "3", "4", "5", "6", "7", "8", "9">>

IsDecDigit(ch) == \E d \in 1..10 : DecDigits[d] = ch

\* the number a decimal numeral denotes (-1 when it is not a numeral)
RECURSIVE DecValue(_)
DecValue(s) ==
  IF s = <<>> THEN 0
  ELSE 10 * DecValue(SubSeq(s, 1, Len(s) - 1))
       + ((CHOOSE d \in 1..10 : DecDigits[d] = s[Len(s)]) - 1)

IsDecNumeral(s) ==
  /\ Len(s) >= 1
  /\ \A k \in 1..Len(s) : IsDecDigit(s[k])
  /\ (Len(s) > 1 => s[1] # "0")

\* a cell reference cut into its letters and its digits
RefLetters(ref) == SubSeq(ref, 1, Cardinality({k \in 1..Len(ref) : ~IsDecDigit(ref[k])}))

RefDigits(ref) == SubSeq(ref, Len(RefLetters(ref)) + 1, Len(ref))

\* the <c> element that opens at position p of s: its reference, the pieces
\* of its attributes after r, and its character data
CellAt(s, p) ==
  LET q == NextAt(s, p + 1, "\"")
      o == NextAt(s, q + 1, "><is><t>")
      e == NextAt(s, o + 1, "</t></is></c>")
  IN  [ ref |-> SubSeq(s, p + 1, q - 1),
        attrs |-> SubSeq(s, q + 1, o - 1),
        text |-> SubSeq(s, o + 1, e - 1),
        closed |-> q > 0 /\ o > 0 /\ e > 0 ]

\* the <row> element that opens at position p of s: its number and the
\* positions of its cells, in document order
RowAt(s, p) ==
  LET q == NextAt(s, p + 1, "\">")
      e == NextAt(s, q + 1, "</row>")
  IN  [ num |-> SubSeq(s, p + 1, q - 1),
        cells |-> {c \in PosOf(s, "<c r=\"") : q < c /\ c < e},
        closed |-> q > 0 /\ e > 0 ]

\* the rows of the worksheet, in document order; all of them lie in <sheetData>
SheetRows(s) ==
  LET starts == PosOf(s, "<row r=\"")
  IN  [k \in 1..Cardinality(starts) |-> RowAt(s, NthOf(starts, k))]

RowCell(s, row, c) == CellAt(s, NthOf(row.cells, c))

\* the text a reader shows for input value v: the empty text when absent
Shown(v) == IF v.kind = "string" THEN v.chars ELSE <<>>

\* C14: for N input rows the worksheet holds exactly N + 1 rows, numbered
\* 1..N+1 in document order, all inside sheetData; every row holds one
\* inline-string cell per column, in column order, the cell of column c in
\* row n being referenced by the letters of c followed by n; the cells of
\* row 1 carry style index 1 and the header texts; the cells of row r + 2
\* show the values of input row r.
C14_RowsAndCells ==
  (xparts # <<>>) =>
    LET s == xparts.sheet
        rws == SheetRows(s)
    IN  /\ Len(rws) = Len(data) + 1
        /\ Cardinality(PosOf(s, "</row>")) = Len(data) + 1
        /\ \A p \in PosOf(s, "<row r=\"") \cup PosOf(s, "</row>") :
             NextAt(s, 1, "<sheetData>") < p /\ p < NextAt(s, 1, "</sheetData>")
        /\ \A n \in 1..Len(rws) :
             /\ rws[n].closed
             /\ IsDecNumeral(rws[n].num) /\ DecValue(rws[n].num) = n
             /\ Cardinality(rws[n].cells) = Len(headers)
             /\ \A c \in 1..Len(headers) :
                  LET cell == RowCell(s, rws[n], c)
                  IN  /\ cell.closed
                      /\ IsBijNumeral(RefLetters(cell.ref))
                      /\ BijValue(RefLetters(cell.ref)) = c
                      /\ IsDecNumeral(RefDigits(cell.ref))
                      /\ DecValue(RefDigits(cell.ref)) = n
                      /\ Len(cell.attrs) >= 1 /\ cell.attrs[1] = " t=\"inlineStr\""
                      /\ (n = 1 => cell.attrs = <<" t=\"inlineStr\"", " s=\"1\"">>)
                      /\ XmlText(cell.text) =
                           IF n = 1 THEN headers[c] ELSE Shown(data[n - 1][keys[c]])

\* two rows have been written, the second of them with special characters
C14_Witness ==
  /\ xparts # <<>>
  /\ Len(data) = 2
  /\ data[2] = SpecialRow
  /\ Len(SheetRows(xparts.sheet)) = 3

\* ------------------------------------------- styles (C15)
\* the cell formats a style table declares, in order: the <xf> elements
\* between <cellXfs and </cellXfs>
XfDefault == "<xf/>"
XfHeader == "<xf fontId=\"1\" fillId=\"2\" applyFont=\"1\" applyFill=\"1\"><alignment horizontal=\"center\" vertical=\"center\"/></xf>"
XfWrapTop == "<xf applyAlignment=\"1\"><alignment wrapText=\"1\" vertical=\"top\"/></xf>"

CellFormats(st) ==
  LET a == NextAt(st, 1, "<cellXfs")
      b == NextAt(st, 1, "</cellXfs>")
      xs == {p \in (a + 1)..(b - 1) : st[p] \in {XfDefault, XfHeader, XfWrapTop}}
  IN  [k \in 1..Cardinality(xs) |-> st[NthOf(xs, k)]]

\* the column of the long text
IsExamples(c) == headers[c] = <<"E", "x", "a", "m", "p", "l", "e", "s">>

\* C15: style index 2 is on the data cells of the Examples column and on no
\* other cell: header cells carry index 1, data cells of the other columns
\* carry no style index; and whenever a cell refers to index 2 the style
\* table declares a third cell format, with wrapText and top alignment.
C15_WrapStyleOnExamplesOnly ==
  (xparts # <<>>) =>
    LET s == xparts.sheet
        rws == SheetRows(s)
        AttrsOf(n, c) == RowCell(s, rws[n], c).attrs
    IN  /\ \A n \in 1..Len(rws) : \A c \in 1..Len(headers) :
             AttrsOf(n, c) =
               IF n = 1 THEN <<" t=\"inlineStr\"", " s=\"1\"">>
               ELSE IF IsExamples(c) THEN <<" t=\"inlineStr\"", " s=\"2\"">>
               ELSE <<" t=\"inlineStr\"">>
        /\ (\E n \in 1..Len(rws) : \E c \in 1..Len(headers) :
              \E a \in 1..Len(AttrsOf(n, c)) : AttrsOf(n, c)[a] = " s=\"2\"")
             => /\ Len(CellFormats(xparts.styles)) = 3
                /\ CellFormats(xparts.styles)[3] = XfWrapTop

\* ------------------------------------------- auto-filter and pane (C16)
\* the value of the ref attribute of <autoFilter: the pieces after ref=" up
\* to the piece that closes the attribute
FilterRef(s) ==
  LET a == NextAt(s, NextAt(s, 1, "<autoFilter"), " ref=\"")
      ends == {p \in (a + 1)..Len(s) : s[p] \in {"\"/></worksheet>", "\"/>"}}
      e == CHOOSE p \in ends : \A q \in ends : p <= q
  IN  SubSeq(s, a + 1, e - 1)

\* C16: for N input rows the auto-filter range is A1:<letters of the last
\* column><N + 1>, on the one autoFilter element that follows sheetData, and
\* the sheet view freezes a pane with ySplit 1 and top-left cell A2.
C16_AutoFilterAndPane ==
  (xparts # <<>>) =>
    LET s == xparts.sheet
        ref == FilterRef(s)
        range == SubSeq(ref, 2, Len(ref))
        pane == NextAt(s, 1, "<pane")
    IN  /\ Cardinality(PosOf(s, "<autoFilter")) = 1
        /\ NextAt(s, 1, "</sheetData>") < NextAt(s, 1, "<autoFilter")
        /\ Len(ref) >= 3 /\ ref[1] = "A1:"
        /\ IsBijNumeral(RefLetters(range))
        /\ BijValue(RefLetters(range)) = Len(headers)
        /\ RefLetters(range) = <<"G">>
        /\ IsDecNumeral(RefDigits(range))
        /\ DecValue(RefDigits(range)) = Len(data) + 1
        /\ Cardinality(PosOf(s, "<pane")) = 1
        /\ pane > 0 /\ pane < NextAt(s, 1, "<sheetData>")
        /\ s[pane + 1] = " ySplit=\"1\""
        /\ s[pane + 2] = " topLeftCell=\"A2\""

\* the range written for two rows is A1:G3
C16_Witness ==
  /\ xparts # <<>>
  /\ Len(data) = 2
  /\ FilterRef(xparts.sheet) = <<"A1:", "G", "3">>

\* ------------------------------------------- reading the delimited text back
\* A reader of comma-separated text: a double quote toggles the quoted
\* state, so a position is outside quotes when an even number of quotes
\* precede it; records end at line feeds outside quotes, fields at commas
\* outside quotes.
OutsideQuotes(t, p) == Cardinality({q \in 1..(p - 1) : t[q] = "\""}) % 2 = 0

\* t cut at the positions seps: the pieces between them, in order
CutAt(t, seps) ==
  [k \in 1..(Cardinality(seps) + 1) |->
     SubSeq(t,
            IF k = 1 THEN 1 ELSE NthOf(seps, k - 1) + 1,
            IF k = Cardinality(seps) + 1 THEN Len(t) ELSE NthOf(seps, k) - 1)]

CsvRecords(t) == CutAt(t, {p \in 1..Len(t) : t[p] = "\n" /\ OutsideQuotes(t, p)})

CsvFields(rec) == CutAt(rec, {p \in 1..Len(rec) : rec[p] = "," /\ OutsideQuotes(rec, p)})

IsQuoted(f) == Len(f) >= 2 /\ f[1] = "\"" /\ f[Len(f)] = "\""

\* the text between the quotes of a quoted field, a doubled quote read as one
RECURSIVE Undouble(_)
Undouble(s) ==
  IF s = <<>> THEN <<>>
  ELSE IF Len(s) >= 2 /\ s[1] = "\"" /\ s[2] = "\"" THEN <<"\"">> \o Undouble(SubSeq(s, 3, Len(s)))
  ELSE <<Head(s)>> \o Undouble(Tail(s))

\* the value a reader gives a field
FieldValue(f) == IF IsQuoted(f) THEN Undouble(SubSeq(f, 2, Len(f) - 1)) ELSE f

\* a text with each of its double quotes written twice
RECURSIVE Doubled(_)
Doubled(s) ==
  IF s = <<>> THEN <<>>
  ELSE (IF Head(s) = "\"" THEN <<"\"", "\"">> ELSE <<Head(s)>>) \o Doubled(Tail(s))

\* C18: the delimited text for N rows reads as one header record followed by
\* N data records in row order; data record r holds the row's values in
\* column order, each written between double quotes with its inner double
\* quotes doubled, the fields joined by commas (an absent or empty value
\* gives ""), and reads back as those values.
C18_CsvRecords ==
  (csvText # <<>>) =>
    LET recs == CsvRecords(csvText[1])
    IN  /\ Len(recs) = Len(data) + 1
        /\ LET hf == CsvFields(recs[1])
           IN  /\ Len(hf) = Len(headers)
               /\ \A c \in 1..Len(headers) : FieldValue(hf[c]) = headers[c]
        /\ \A n \in 1..Len(data) :
             LET fs == CsvFields(recs[n + 1])
             IN  /\ Len(fs) = Len(keys)
                 /\ \A c \in 1..Len(keys) :
                      /\ fs[c] = <<"\"">> \o Doubled(Shown(data[n][keys[c]])) \o <<"\"">>
                      /\ FieldValue(fs[c]) = Shown(data[n][keys[c]])

\* the text of two rows is out, the second row holding quotes, a comma and a
\* line feed in its values
C18_Witness ==
  /\ csvText # <<>>
  /\ Len(data) = 2
  /\ data[2] = SpecialRow
  /\ Len(CsvRecords(csvText[1])) = 3

\* ------------------------------------------- absent values (C17)
Absent(v) == v.kind \in {"undefined", "null"}

\* C17: a row that lacks declared keys, or holds null or undefined for them,
\* does not make the export fail: no step throws; the cell of an absent value
\* is an inline-string cell with empty text and its delimited-text field is
\* "" (two double quotes), while the cells and fields of the row's other
\* keys show their values.
C17_AbsentValuesAreEmpty ==
  /\ xpc # "threw"
  /\ (xparts # <<>>) =>
       LET s == xparts.sheet
           rws == SheetRows(s)
       IN  \A n \in 1..Len(data) : \A c \in 1..Len(keys) :
             LET cell == RowCell(s, rws[n + 1], c)
                 v == data[n][keys[c]]
             IN  /\ cell.closed
                 /\ cell.attrs[1] = " t=\"inlineStr\""
                 /\ IF Absent(v) THEN cell.text = <<>>
                    ELSE XmlText(cell.text) = v.chars
  /\ (csvText # <<>>) =>
       LET recs == CsvRecords(csvText[1])
       IN  \A n \in 1..Len(data) : \A c \in 1..Len(keys) :
             LET f == CsvFields(recs[n + 1])[c]
                 v == data[n][keys[c]]
             IN  IF Absent(v) THEN f = <<"\"", "\"">>
                 ELSE FieldValue(f) = v.chars

\* the export of a row without its examples, next to a row with no key at
\* all, has run to its end
C17_Witness ==
  /\ xpc = "done"
  /\ csvText # <<>>
  /\ Len(data) = 2
  /\ data[1] = [FullRow EXCEPT !["examples"] = UNDEFINED]
  /\ \A k \in DOMAIN data[2] : data[2][k] = UNDEFINED

\* ------------------------------------------- quoting of every field (C19)
\* C19: every field of every line of the delimited text, the header line
\* included, is enclosed in double quotes, and the fields of a line are
\* separated by commas (one field per column).
C19_EveryFieldQuoted ==
  (csvText # <<>>) =>
    LET recs == CsvRecords(csvText[1])
    IN  \A n \in 1..Len(recs) :
          /\ Len(CsvFields(recs[n])) = Len(headers)
          /\ \A c \in 1..Len(headers) : IsQuoted(CsvFields(recs[n])[c])

\* ------------------------------------------- the parts of the archive (C20)
\* the six paths, cut at their slashes like every path of the documents
PartNames ==
  << <<"[Content_Types].xml">>,
     <<"_rels", "/", ".rels">>,
     <<"xl", "/", "workbook.xml">>,
     <<"xl", "/", "_rels", "/", "workbook.xml.rels">>,
     <<"xl", "/", "styles.xml">>,
     <<"xl", "/", "worksheets", "/", "sheet1.xml">> >>

\* C20: whatever the rows, the archive downloadExcel produces holds exactly
\* six parts, in the order [Content_Types].xml, _rels/.rels, xl/workbook.xml,
\* xl/_rels/workbook.xml.rels, xl/styles.xml, xl/worksheets/sheet1.xml, the
\* last of them being the worksheet built from the rows.
C20_SixPartsInOrder ==
  (archive # <<>>) =>
    /\ Len(archive) = 6
    /\ \A k \in 1..Len(archive) : archive[k][1] = PartNames[k]
    /\ archive[6][2] = xparts.sheet
    /\ archive[5][2] = xparts.styles

\* the archive of two rows has been built
C20_Witness == archive # <<>> /\ Len(data) = 2 /\ Len(archive) = 6

\* ------------------------------------------- zero rows (C21)
\* C21: given zero rows, downloadExcel runs to its end and still produces the
\* six-part archive; the worksheet in it holds the header row alone (row 1,
\* with the seven header texts), the auto-filter range is A1:G1, and the
\* delimited text is the header line alone.
C21_ZeroRows ==
  (Len(data) = 0 /\ xpc = "done") =>
    /\ Len(archive) = 6
    /\ \A k \in 1..Len(archive) : archive[k][1] = PartNames[k]
    /\ LET s == archive[6][2]
           rws == SheetRows(s)
       IN  /\ Len(rws) = 1
           /\ Cardinality(PosOf(s, "</row>")) = 1
           /\ rws[1].closed /\ rws[1].num = <<"1">>
           /\ Cardinality(rws[1].cells) = Len(headers)
           /\ \A c \in 1..Len(headers) : XmlText(RowCell(s, rws[1], c).text) = headers[c]
           /\ FilterRef(s) = <<"A1:", "G", "1">>
    /\ csvText # <<>>
    /\ LET recs == CsvRecords(csvText[1])
       IN  /\ Len(recs) = 1
           /\ \A p \in 1..Len(csvText[1]) : csvText[1][p] # "\n"
           /\ Len(CsvFields(recs[1])) = Len(headers)
           /\ \A c \in 1..Len(headers) : FieldValue(CsvFields(recs[1])[c]) = headers[c]

\* the verbose copy has exported zero rows
C21_Witness == Len(data) = 0 /\ xpc = "done" /\ copy = "verbose" /\ Len(archive) = 6

\* ------------------------------------------- byte order (C22)
\* byte k of a little-endian field holding v is floor(v / 256^k) mod 256
FieldLE(bs, pos, width, v) ==
  \A k \in 0..(width - 1) : bs[pos + k + 1] = (v \div (256 ^ k)) % 256

\* every field <<position, width, value>> of a table stands little-endian
FieldsLE(bs, table) ==
  \A n \in 1..Len(table) : FieldLE(bs, table[n][1], table[n][2], table[n][3])

\* C22: every multi-byte integer field of every local header, of every
\* central-directory entry and of the end record holds its value
\* little-endian, 16-bit and 32-bit fields alike; the CRC field holds the
\* four bytes of the reference CRC, low byte first; the three signatures
\* 0x04034b50, 0x02014b50, 0x06054b50 thus begin with 'P', 'K'.
C22_LittleEndian ==
  /\ \A k \in 1..Len(cd) :
       LET lh == parts[2 * k - 1]
           ce == cd[k]
       IN  /\ FieldsLE(lh, << <<0, 4, 67324752>>, <<4, 2, 20>>, <<6, 2, 0>>,
                              <<8, 2, 0>>, <<10, 2, 0>>, <<12, 2, 0>>,
                              <<18, 4, Len(CB(k))>>, <<22, 4, Len(CB(k))>>,
                              <<26, 2, Len(NB(k))>>, <<28, 2, 0>> >>)
           /\ SubSeq(lh, 15, 18) = RefCrcBytes(CB(k))
           /\ lh[1] = 80 /\ lh[2] = 75
           /\ FieldsLE(ce, << <<0, 4, 33639248>>, <<4, 2, 20>>, <<6, 2, 20>>,
                              <<8, 2, 0>>, <<10, 2, 0>>, <<12, 2, 0>>, <<14, 2, 0>>,
                              <<20, 4, Len(CB(k))>>, <<24, 4, Len(CB(k))>>,
                              <<28, 2, Len(NB(k))>>, <<30, 2, 0>>, <<32, 2, 0>>,
                              <<34, 2, 0>>, <<36, 2, 0>>, <<38, 4, 0>>,
                              <<42, 4, SumLocal(k - 1)>> >>)
           /\ SubSeq(ce, 17, 20) = RefCrcBytes(CB(k))
           /\ ce[1] = 80 /\ ce[2] = 75
  /\ (pc \in {"blob", "done"}) =>
       LET e == parts[Len(parts)]
       IN  /\ FieldsLE(e, << <<0, 4, 101010256>>, <<4, 2, 0>>, <<6, 2, 0>>,
                             <<8, 2, NParts>>, <<10, 2, NParts>>,
                             <<12, 4, SumCentral(NParts)>>, <<16, 4, SumLocal(NParts)>>,
                             <<20, 2, 0>> >>)
           /\ e[1] = 80 /\ e[2] = 75

\* a finished archive of two parts, the first with a payload: the signature
\* of its local header reads 50 4b 03 04 and its CRC field is not zero
C22_Witness ==
  /\ pc = "done"
  /\ Len(cd) = 2
  /\ Len(CB(1)) > 0
  /\ SubSeq(parts[1], 1, 4) = <<80, 75, 3, 4>>
  /\ SubSeq(parts[1], 15, 18) # <<0, 0, 0, 0>>

\* ---------------------------------------------------------------------
\* C23: references between the parts of the package

\* the value of the attribute whose opening piece stands at position p
AttrValue(s, p) == SubSeq(s, p + 1, NextAt(s, p + 1, "\"") - 1)

\* the elements of s that open with the piece open, each up to the next one
Elements(s, open) ==
  LET P == PosOf(s, open)
  IN  [k \in 1..Cardinality(P) |->
         SubSeq(s, NthOf(P, k),
                IF k < Cardinality(P) THEN NthOf(P, k + 1) - 1 ELSE Len(s))]

\* the value of attribute attr of element e (UNDEFINED when e has none)
Attr(e, attr) ==
  IF NextAt(e, 1, attr) = 0 THEN UNDEFINED
  ELSE AttrValue(e, NextAt(e, 1, attr))

ArchiveNames == {archive[k][1] : k \in 1..Len(archive)}

PartContent(name) ==
  archive[CHOOSE k \in 1..Len(archive) : archive[k][1] = name][2]

\* a relationships part lies in the folder _rels next to its source
IsRelsPart(name) ==
  Len(name) >= 3 /\ name[Len(name) - 2] = "_rels" /\ name[Len(name) - 1] = "/"

\* the folder of the source part of a relationships part
SourceDir(name) == SubSeq(name, 1, Len(name) - 3)

\* the part a relationship target names: relative to the folder of the source
\* unless it begins with a slash
Resolve(dir, target) ==
  IF target # <<>> /\ Head(target) = "/" THEN Tail(target) ELSE dir \o target

Relationships(name) == Elements(PartContent(name), "<Relationship")

WorkbookPart == <<"xl", "/", "workbook.xml">>

WorkbookRelsPart == <<"xl", "/", "_rels", "/", "workbook.xml.rels">>

Overrides == Elements(PartContent(<<"[Content_Types].xml">>), "<Override")

SheetEntries == Elements(PartContent(WorkbookPart), "<sheet")

\* C23: once the archive is built its six part names are pairwise distinct;
\* every Override of the content types names a part of the archive, every
\* target of every relationships part resolves to a part of the archive, and
\* the single sheet entry of the workbook carries r:id rId1, which the
\* workbook relationships resolve to the worksheet part of the archive.
C23_PartsResolve ==
  archive # <<>> =>
    /\ \A a, b \in 1..Len(archive) : a # b => archive[a][1] # archive[b][1]
    /\ Len(Overrides) = 3
    /\ \A k \in 1..Len(Overrides) :
         LET v == Attr(Overrides[k], " PartName=\"")
         IN  /\ v # UNDEFINED
             /\ v # <<>> /\ Head(v) = "/"
             /\ Tail(v) \in ArchiveNames
    /\ \A n \in {m \in ArchiveNames : IsRelsPart(m)} :
         /\ Len(Relationships(n)) >= 1
         /\ \A k \in 1..Len(Relationships(n)) :
              LET t == Attr(Relationships(n)[k], " Target=\"")
              IN  /\ t # UNDEFINED
                  /\ Resolve(SourceDir(n), t) \in ArchiveNames
    /\ {m \in ArchiveNames : IsRelsPart(m)}
         = {<<"_rels", "/", ".rels">>, WorkbookRelsPart}
    /\ Resolve(<<>>, Attr(Relationships(<<"_rels", "/", ".rels">>)[1],
                          " Target=\"")) = WorkbookPart
    /\ Len(SheetEntries) = 1
    /\ Attr(SheetEntries[1], " r:id=\"") = <<"rId1">>
    /\ LET hit == {k \in 1..Len(Relationships(WorkbookRelsPart)) :
                     Attr(Relationships(WorkbookRelsPart)[k], " Id=\"")
                       = <<"rId1">>}
       IN  /\ Cardinality(hit) = 1
           /\ \A k \in hit :
                LET part == Resolve(SourceDir(WorkbookRelsPart),
                                    Attr(Relationships(WorkbookRelsPart)[k],
                                         " Target=\""))
                IN  /\ part \in ArchiveNames
                    /\ part = <<"xl", "/", "worksheets", "/", "sheet1.xml">>
                    /\ PartContent(part) = archive[6][2]
                    /\ \E q \in 1..Len(PartContent(part)) :
                         PartContent(part)[q] = "</row>"

C23_Witness ==
  /\ xpc = "done" /\ copy = "browser" /\ Len(data) = MaxRows
  /\ Len(archive) = 6
  /\ Len(Relationships(WorkbookRelsPart)) = 2

\* ---------------------------------------------------------------------
\* C24: the copies of the builder emit the same bytes

\* the records as the copy that is not running builds them
OtherLocalHeader(nb, cr, sz) ==
  IF variant = "buildZip" THEN LocalHeaderVerbose(nb, cr, sz)
  ELSE LocalHeaderCompact(nb, cr, sz)

OtherCentralEntry(nb, cr, sz, offset) ==
  IF variant = "buildZip" THEN CentralEntryVerbose(nb, cr, sz, offset)
  ELSE CentralEntryCompact(nb, cr, sz, offset)

OtherEocd(n, size, offset) ==
  IF variant = "buildZip" THEN EocdVerbose(n, size, offset)
  ELSE EocdCompact(n, size, offset)

\* the archive the other copy emits for the parts of this run
OtherArchive ==
  LET locals == [k \in 1..NParts |->
                   OtherLocalHeader(NB(k), crc32(CB(k)), Len(CB(k))) \o CB(k)]
      entries == [k \in 1..NParts |->
                    OtherCentralEntry(NB(k), crc32(CB(k)), Len(CB(k)),
                                      SumLocal(k - 1))]
  IN  Blob(locals) \o Blob(entries)
        \o OtherEocd(NParts, Len(Blob(entries)), SumLocal(NParts))

\* C24: the archive a run of one copy of the builder returns is, byte for
\* byte, the archive the other copy emits for the same list of parts (the
\* compact buildZip leaves out the writes of zero, buildZipBlob makes them).
C24_CopiesByteIdentical ==
  pc = "done" => blob = OtherArchive

C24_Witness ==
  /\ pc = "done"
  /\ variant = "buildZip"
  /\ NParts = MaxParts
  /\ Len(CB(2)) > 1
  /\ Len(blob) = Len(OtherArchive)
  /\ blob[7] = 0 /\ blob[11] = 0

\* ---------------------------------------------------------------------
\* The scrapers: the three console scripts ("browser": scrapeIntentsBrowser.js
\* 22-362, "discovery": scrapeIntents.js 206-656, "verbose": scrapeIntents.js
\* 681-1180), the Puppeteer script ("live": scrapeIntentsBrowser.js 364-765)
\* and the static-HTML script ("static": scrapeIntents.js 1-180), each from
\* the point where its page or file has been found.  The tree is the list of
\* its .kanban-tree-node elements in document order; the children of a
\* collapsed node are not shown.  The percentage a row also carries is left
\* out, it takes no part in any decision.

MaxNodes == 4
MaxStaticNodes == 5

\* the texts of .kanban-tree-node-name, as characters
NodeNames == {<<"a">>, <<"a", "|", "a">>}

\* levels 1 and 2 carry a toggler, level 3 is a leaf
TreeNode ==
  [level : {1, 2}, name : NodeNames, collapsed : BOOLEAN]
    \cup [level : {3}, name : NodeNames, collapsed : {FALSE}]

\* a saved page has no togglers to work
StaticNode == [level : {1, 2, 3}, name : NodeNames, collapsed : {FALSE}]

\* node q encloses node p
Ancestor(d, q, p) ==
  /\ q < p
  /\ d[q].level < d[p].level
  /\ \A m \in (q + 1)..(p - 1) : d[m].level > d[q].level

\* el.offsetParent !== null: no enclosing node is collapsed
Visible(d, p) == \A q \in 1..(p - 1) : Ancestor(d, q, p) => ~d[q].collapsed

\* querySelectorAll: the matching elements in document order
InDocumentOrder(S) ==
  [k \in 1..Cardinality(S) |->
     CHOOSE p \in S : Cardinality({q \in S : q < p}) = k - 1]

\* a scan that looks at the top level only
CollapsedTogglersTopLevel(d) ==
  InDocumentOrder({p \in 1..Len(d) : d[p].collapsed /\ d[p].level = 1})

\* the collapsed togglers a scan finds
CollapsedTogglers(d) ==
  InDocumentOrder({p \in 1..Len(d) : d[p].collapsed /\ Visible(d, p)})

\* toggler.click() on a collapsed node expands it
ClickToggler(d, p) == [d EXCEPT ![p].collapsed = ~d[p].collapsed]

\* querySelectorAll('.kanban-tree-node')
AllNodes(d) == InDocumentOrder({p \in 1..Len(d) : Visible(d, p)})

\* the hierarchy loop with the topic kept when the category changes
RECURSIVE hierarchyLoopKeepTopic(_, _, _, _, _, _)
hierarchyLoopKeepTopic(d, ps, withEl, currentCategory, currentTopic, acc) ==
  IF ps = <<>> THEN acc
  ELSE LET node == d[Head(ps)]
       IN  CASE node.level = 1 ->
                  hierarchyLoopKeepTopic(d, Tail(ps), withEl, node.name, currentTopic, acc)
             [] node.level = 2 ->
                  hierarchyLoopKeepTopic(d, Tail(ps), withEl, currentCategory, node.name, acc)
             [] node.level = 3 ->
                  hierarchyLoopKeepTopic(d, Tail(ps), withEl, currentCategory, currentTopic,
                    Append(acc, [category |-> currentCategory,
                                 topic |-> currentTopic,
                                 intent |-> node.name,
                                 nodeEl |-> IF withEl THEN Head(ps) ELSE 0,
                                 detail |-> 0]))

\* the loop over the nodes: a level-1 node sets the category and clears the
\* topic, a level-2 node sets the topic, a level-3 node pushes a row
RECURSIVE hierarchyLoop(_, _, _, _, _, _)
hierarchyLoop(d, ps, withEl, currentCategory, currentTopic, acc) ==
  IF ps = <<>> THEN acc
  ELSE LET node == d[Head(ps)]
       IN  CASE node.level = 1 ->
                  hierarchyLoop(d, Tail(ps), withEl, node.name, <<>>, acc)
             [] node.level = 2 ->
                  hierarchyLoop(d, Tail(ps), withEl, currentCategory, node.name, acc)
             [] node.level = 3 ->
                  hierarchyLoop(d, Tail(ps), withEl, currentCategory, currentTopic,
                    Append(acc, [category |-> currentCategory,
                                 topic |-> currentTopic,
                                 intent |-> node.name,
                                 nodeEl |-> IF withEl THEN Head(ps) ELSE 0,
                                 detail |-> 0]))

\* the rows collected from the tree (withEl: the row keeps its element)
collectTreeNodes(d, withEl) == hierarchyLoop(d, AllNodes(d), withEl, <<>>, <<>>, <<>>)

\* the text the static script puts in the intent column of a topic without
\* intents
PLACEHOLDER == <<"(collapsed - expand topic in CXOne to capture intents)">>

\* `${category}|${topic}`
TopicKey(category, topic) == category \o <<"|">> \o topic

\* topicsWithIntents: the keys of the rows
topicsWithIntents(rws) == {TopicKey(rws[k].category, rws[k].topic) : k \in 1..Len(rws)}

\* the second loop of the static script: a level-1 node sets cat, a level-2
\* node whose key is not among the keys of the rows pushes a placeholder row
RECURSIVE placeholderLoop(_, _, _, _, _)
placeholderLoop(d, ps, cat, keySet, acc) ==
  IF ps = <<>> THEN acc
  ELSE LET node == d[Head(ps)]
       IN  CASE node.level = 1 ->
                  placeholderLoop(d, Tail(ps), node.name, keySet, acc)
             [] node.level = 2 ->
                  placeholderLoop(d, Tail(ps), cat, keySet,
                    IF TopicKey(cat, node.name) \notin keySet
                    THEN Append(acc, [category |-> cat,
                                      topic |-> node.name,
                                      intent |-> PLACEHOLDER,
                                      nodeEl |-> 0,
                                      detail |-> 0])
                    ELSE acc)
             [] OTHER ->
                  placeholderLoop(d, Tail(ps), cat, keySet, acc)

\* scrapeIntents(): the intent rows, then the placeholder rows
scrapeIntents(d) ==
  LET rws == collectTreeNodes(d, FALSE)
  IN  placeholderLoop(d, AllNodes(d), <<>>, topicsWithIntents(rws), rws)

ConsoleScripts == {"browser", "discovery", "verbose"}

ScrapeInit ==
  /\ ZipIdle
  /\ CrcIdle
  /\ FnIdle
  /\ XlsIdle
  /\ \/ /\ script \in ConsoleScripts \cup {"live"}
        /\ dom \in SeqUpTo(TreeNode, MaxNodes)
        /\ spc = "scan"
     \/ /\ script = "static"
        /\ dom \in SeqUpTo(StaticNode, MaxStaticNodes)
        /\ spc = "scrape"
  /\ togglers = <<>>
  /\ tk = 0
  /\ intentList = <<>>
  /\ ci = 0
  /\ panel = 0
  /\ events = <<>>

\* a scan of the expansion loop: leave when it finds nothing, else start a pass
ExpandScan ==
  /\ spc = "scan"
  /\ LET found == CollapsedTogglers(dom)
     IN  IF Len(found) = 0
         THEN spc' = "collect" /\ UNCHANGED togglers
         ELSE spc' = "pass" /\ togglers' = found
  /\ tk' = 0
  /\ UNCHANGED <<script, dom, intentList, ci, panel, events>>

\* one toggler of the pass is clicked
ExpandClick ==
  /\ spc = "pass"
  /\ tk < Len(togglers)
  /\ dom' = ClickToggler(dom, togglers[tk + 1])
  /\ tk' = tk + 1
  /\ UNCHANGED <<script, spc, togglers, intentList, ci, panel, events>>

\* the pass is over: back to the scan
PassEnd ==
  /\ spc = "pass"
  /\ tk >= Len(togglers)
  /\ spc' = "scan"
  /\ UNCHANGED <<script, dom, togglers, tk, intentList, ci, panel, events>>

\* the hierarchy is collected
Collect ==
  /\ spc = "collect"
  /\ intentList' = collectTreeNodes(dom, script \in ConsoleScripts)
  /\ spc' = "check"
  /\ UNCHANGED <<script, dom, togglers, tk, ci, panel, events>>

\* static: the rows are read from the saved page
ScrapeIntents ==
  /\ spc = "scrape"
  /\ intentList' = scrapeIntents(dom)
  /\ spc' = "check"
  /\ UNCHANGED <<script, dom, togglers, tk, ci, panel, events>>

\* if (intentList.length === 0) return / process.exit(1); the verbose console
\* script has no such test
NoIntents ==
  /\ spc = "check"
  /\ script \in {"browser", "discovery", "live", "static"}
  /\ Len(intentList) = 0
  /\ spc' = "stopped"
  /\ UNCHANGED <<script, dom, togglers, tk, intentList, ci, panel, events>>

\* the script goes on: to its clicks, or (static) to writeExcel
StartClicks ==
  /\ spc = "check"
  /\ script = "verbose" \/ Len(intentList) # 0
  /\ spc' = CASE script = "browser" -> "preclick"
              [] script = "discovery" -> "discover"
              [] script = "static" -> "write"
              [] OTHER -> "click"
  /\ ci' = 0
  /\ UNCHANGED <<script, dom, togglers, tk, intentList, panel, events>>

\* browser: the second intent is clicked first, to deselect the first one
PreClick ==
  /\ spc = "preclick"
  /\ IF Len(intentList) > 1
     THEN /\ panel' = intentList[2].nodeEl
          /\ events' = Append(events, <<"click", intentList[2].nodeEl>>)
     ELSE UNCHANGED <<panel, events>>
  /\ spc' = "click"
  /\ UNCHANGED <<script, dom, togglers, tk, intentList, ci>>

\* discovery: the first intent is clicked ...
DiscoverClick ==
  /\ spc = "discover"
  /\ panel' = intentList[1].nodeEl
  /\ events' = Append(events, <<"click", intentList[1].nodeEl>>)
  /\ spc' = "discovered"
  /\ UNCHANGED <<script, dom, togglers, tk, intentList, ci>>

\* the discovery read with the loop then starting over at the first intent
DiscoverReadRestart ==
  /\ spc = "discovered"
  /\ intentList' = [intentList EXCEPT ![1].detail = panel]
  /\ events' = Append(events, <<"read", 1>>)
  /\ ci' = 0
  /\ spc' = "click"
  /\ UNCHANGED <<script, dom, togglers, tk, panel>>

\* ... and what appeared is stored as its examples; the loop starts at 1
DiscoverRead ==
  /\ spc = "discovered"
  /\ intentList' = [intentList EXCEPT ![1].detail = panel]
  /\ events' = Append(events, <<"read", 1>>)
  /\ ci' = 1
  /\ spc' = "click"
  /\ UNCHANGED <<script, dom, togglers, tk, panel>>

\* the level-3 nodes whose name is the text looked for, in document order
NodesNamed(d, intentName) ==
  InDocumentOrder({p \in 1..Len(d) :
                     d[p].level = 3 /\ Visible(d, p) /\ d[p].name = intentName})

\* the click on the element the row keeps
ClickIntent ==
  /\ spc = "click"
  /\ script \in ConsoleScripts
  /\ ci < Len(intentList)
  /\ panel' = intentList[ci + 1].nodeEl
  /\ events' = Append(events, <<"click", intentList[ci + 1].nodeEl>>)
  /\ spc' = "read"
  /\ UNCHANGED <<script, dom, togglers, tk, intentList, ci>>

\* live: the click on the first level-3 node whose name is the row's intent;
\* the row is skipped when there is none
ClickByName ==
  /\ spc = "click"
  /\ script = "live"
  /\ ci < Len(intentList)
  /\ LET hits == NodesNamed(dom, intentList[ci + 1].intent)
     IN  IF Len(hits) = 0
         THEN ci' = ci + 1 /\ UNCHANGED <<panel, events, spc>>
         ELSE /\ panel' = hits[1]
              /\ events' = Append(events, <<"click", hits[1]>>)
              /\ spc' = "read"
              /\ UNCHANGED ci
  /\ UNCHANGED <<script, dom, togglers, tk, intentList>>

\* the detail panel is read into the row
ReadDetail ==
  /\ spc = "read"
  /\ intentList' = [intentList EXCEPT ![ci + 1].detail = panel]
  /\ events' = Append(events, <<"read", ci + 1>>)
  /\ ci' = ci + 1
  /\ spc' = "click"
  /\ UNCHANGED <<script, dom, togglers, tk, panel>>

\* the click loop is over
ClicksDone ==
  /\ spc = "click"
  /\ ci >= Len(intentList)
  /\ spc' = IF script = "live" THEN "write" ELSE "export"
  /\ UNCHANGED <<script, dom, togglers, tk, intentList, ci, panel, events>>

\* downloadExcel(rows) is entered
DownloadExcel ==
  /\ spc = "export"
  /\ events' = Append(events, <<"downloadExcel", Len(intentList)>>)
  /\ spc' = "xlsx"
  /\ UNCHANGED <<script, dom, togglers, tk, intentList, ci, panel>>

\* the archive is handed to the browser as CXOne_Intents_Output.xlsx
DownloadXlsx ==
  /\ spc = "xlsx"
  /\ events' = Append(events, <<"download", "CXOne_Intents_Output.xlsx">>)
  /\ spc' = "csv"
  /\ UNCHANGED <<script, dom, togglers, tk, intentList, ci, panel>>

\* the delimited text is handed to the browser as CXOne_Intents_Output.csv
DownloadCsv ==
  /\ spc = "csv"
  /\ events' = Append(events, <<"download", "CXOne_Intents_Output.csv">>)
  /\ spc' = "done"
  /\ UNCHANGED <<script, dom, togglers, tk, intentList, ci, panel>>

\* writeExcel(rows): workbook.xlsx.writeFile(OUTPUT_FILE)
WriteExcel ==
  /\ spc = "write"
  /\ events' = Append(events, <<"writeFile", "CXOne_Intents_Output.xlsx">>)
  /\ spc' = "done"
  /\ UNCHANGED <<script, dom, togglers, tk, intentList, ci, panel>>

ScrapeNext ==
  \/ ExpandScan /\ UNCHANGED <<zipVars, crcVars, fnVars, xlsVars>>
  \/ ExpandClick /\ UNCHANGED <<zipVars, crcVars, fnVars, xlsVars>>
  \/ PassEnd /\ UNCHANGED <<zipVars, crcVars, fnVars, xlsVars>>
  \/ Collect /\ UNCHANGED <<zipVars, crcVars, fnVars, xlsVars>>
  \/ ScrapeIntents /\ UNCHANGED <<zipVars, crcVars, fnVars, xlsVars>>
  \/ NoIntents /\ UNCHANGED <<zipVars, crcVars, fnVars, xlsVars>>
  \/ StartClicks /\ UNCHANGED <<zipVars, crcVars, fnVars, xlsVars>>
  \/ PreClick /\ UNCHANGED <<zipVars, crcVars, fnVars, xlsVars>>
  \/ DiscoverClick /\ UNCHANGED <<zipVars, crcVars, fnVars, xlsVars>>
  \/ DiscoverRead /\ UNCHANGED <<zipVars, crcVars, fnVars, xlsVars>>
  \/ ClickIntent /\ UNCHANGED <<zipVars, crcVars, fnVars, xlsVars>>
  \/ ClickByName /\ UNCHANGED <<zipVars, crcVars, fnVars, xlsVars>>
  \/ ReadDetail /\ UNCHANGED <<zipVars, crcVars, fnVars, xlsVars>>
  \/ ClicksDone /\ UNCHANGED <<zipVars, crcVars, fnVars, xlsVars>>
  \/ DownloadExcel /\ UNCHANGED <<zipVars, crcVars, fnVars, xlsVars>>
  \/ DownloadXlsx /\ UNCHANGED <<zipVars, crcVars, fnVars, xlsVars>>
  \/ DownloadCsv /\ UNCHANGED <<zipVars, crcVars, fnVars, xlsVars>>
  \/ WriteExcel /\ UNCHANGED <<zipVars, crcVars, fnVars, xlsVars>>

SpecScrape == ScrapeInit /\ [][ScrapeNext]_vars

\* The expansion loop on its own, up to the collection of the hierarchy.  The
\* names of the nodes play no part in it, so every node carries the same one.
ExpandInit ==
  /\ ZipIdle
  /\ CrcIdle
  /\ FnIdle
  /\ XlsIdle
  /\ script \in ConsoleScripts \cup {"live"}
  /\ dom \in SeqUpTo({n \in TreeNode : n.name = <<"a">>}, MaxNodes)
  /\ spc = "scan"
  /\ togglers = <<>>
  /\ tk = 0
  /\ intentList = <<>>
  /\ ci = 0
  /\ panel = 0
  /\ events = <<>>

ExpandNext ==
  \/ ExpandScan /\ UNCHANGED <<zipVars, crcVars, fnVars, xlsVars>>
  \/ ExpandClick /\ UNCHANGED <<zipVars, crcVars, fnVars, xlsVars>>
  \/ PassEnd /\ UNCHANGED <<zipVars, crcVars, fnVars, xlsVars>>
  \/ Collect /\ UNCHANGED <<zipVars, crcVars, fnVars, xlsVars>>

\* the loop is not held up: each await is a timer that fires
SpecExpandFair == ExpandInit /\ [][ExpandNext]_vars /\ WF_vars(ExpandNext)

\* ---------------------------------------------------------------------
\* C25: the order of clicks, reads and downloads of the console scripts

EventsOf(kind) == {p \in 1..Len(events) : events[p][1] = kind}

\* the k-th event of a kind, by position
EventAt(kind, k) ==
  CHOOSE p \in EventsOf(kind) : Cardinality({q \in EventsOf(kind) : q < p}) = k - 1

\* C25: in each console script downloadExcel is entered at most once, and
\* once the script has ended exactly once; when it is entered every collected
\* intent has been read, the reads came in list order, and each read followed
\* directly on the click of that row's own node; nothing is clicked or read
\* afterwards, and of the two downloads the .xlsx comes first, the .csv second.
C25_ClicksThenExport ==
  script \in ConsoleScripts =>
    /\ Cardinality(EventsOf("downloadExcel")) <= 1
    /\ spc = "done" => Cardinality(EventsOf("downloadExcel")) = 1
    /\ EventsOf("download") # {} => EventsOf("downloadExcel") # {}
    /\ \A x \in EventsOf("downloadExcel") :
         /\ Cardinality(EventsOf("read")) = Len(intentList)
         /\ events[x][2] = Len(intentList)
         /\ \A k \in 1..Len(intentList) :
              LET p == EventAt("read", k)
              IN  /\ p < x
                  /\ events[p][2] = k
                  /\ p > 1
                  /\ events[p - 1] = <<"click", intentList[k].nodeEl>>
                  /\ dom[intentList[k].nodeEl].level = 3
         /\ \A p \in EventsOf("click") : p < x
         /\ SubSeq(events, x + 1, Len(events))
              \in { <<>>,
                    << <<"download", "CXOne_Intents_Output.xlsx">> >>,
                    << <<"download", "CXOne_Intents_Output.xlsx">>,
                       <<"download", "CXOne_Intents_Output.csv">> >> }
         /\ spc = "done" => Len(events) = x + 2

C25_Witness ==
  /\ spc = "done"
  /\ script = "browser"
  /\ Len(intentList) = 3
  /\ events[1] = <<"click", intentList[2].nodeEl>>
  /\ Len(events) = 10

\* ---------------------------------------------------------------------
\* C26: the rows of the hierarchy

\* the level-3 nodes of the tree, in document order
Level3 == InDocumentOrder({p \in 1..Len(dom) : dom[p].level = 3})

\* the last node of level lv before p and after lo (0 when there is none)
LastBefore(p, lv, lo) ==
  LET c == {q \in (lo + 1)..(p - 1) : dom[q].level = lv}
  IN  IF c = {} THEN 0 ELSE CHOOSE q \in c : \A q2 \in c : q2 <= q

NameAt(q) == IF q = 0 THEN <<>> ELSE dom[q].name

Collected == spc \in {"check", "stopped", "preclick", "discover", "discovered",
                      "click", "read", "export", "xlsx", "csv", "write", "done"}

\* C26: once the hierarchy is collected there is one row per level-3 node, in
\* document order (the static script's placeholder rows come after them); the
\* row's intent is the node's name, its category the name of the last level-1
\* node before it, its topic the name of the last level-2 node between that
\* level-1 node and it, and empty when there is none.
C26_RowsFollowHierarchy ==
  Collected =>
    /\ Len(intentList) >= Len(Level3)
    /\ script # "static" => Len(intentList) = Len(Level3)
    /\ \A k \in 1..Len(Level3) :
         LET p == Level3[k]
             c == LastBefore(p, 1, 0)
             t == LastBefore(p, 2, c)
         IN  /\ intentList[k].intent = dom[p].name
             /\ intentList[k].category = NameAt(c)
             /\ intentList[k].topic = NameAt(t)
             /\ script \in ConsoleScripts => intentList[k].nodeEl = p
    /\ \A k \in (Len(Level3) + 1)..Len(intentList) :
         intentList[k].intent = PLACEHOLDER

\* a level-3 node right after a level-1 node that follows a topic of another
\* category: its topic is empty
C26_Witness ==
  /\ Collected
  /\ Len(dom) = 4
  /\ dom[1].level = 1 /\ dom[2].level = 2 /\ dom[3].level = 1 /\ dom[4].level = 3
  /\ dom[1].name # dom[3].name
  /\ Len(intentList) = 1
  /\ intentList[1].topic = <<>>
  /\ intentList[1].category = dom[3].name

\* ---------------------------------------------------------------------
\* C27: the expansion loop

AllExpanded == \A p \in 1..Len(dom) : ~dom[p].collapsed

Expanding == spc \in {"scan", "pass"}

\* C27: the hierarchy is collected only on a tree without a collapsed node,
\* a pass clicks only togglers that were collapsed when it began, and the
\* expansion loop is left eventually.
C27_ExpansionTerminates ==
  /\ [](spc = "collect" => AllExpanded /\ Len(CollapsedTogglers(dom)) = 0)
  /\ [](spc = "pass" =>
          \A k \in (tk + 1)..Len(togglers) : dom[togglers[k]].collapsed)
  /\ <>(~Expanding)

\* a pass has been made and the scan that follows will find togglers the pass
\* did not hold: nodes the pass revealed
C27_Witness ==
  /\ spc = "scan"
  /\ Len(togglers) > 0
  /\ Len(CollapsedTogglers(dom)) > 0
  /\ \A k \in 1..Len(togglers) : ~dom[togglers[k]].collapsed

\* ---------------------------------------------------------------------
\* C28: a run that collects no intent

ExportEvents ==
  EventsOf("downloadExcel") \cup EventsOf("download") \cup EventsOf("writeFile")

\* C28: in the console scripts and the Puppeteer script, a run whose
\* hierarchy collection yields no row stops there: it goes no further than
\* its test of the row count, enters no downloadExcel, triggers no download
\* and writes no file.
C28_NoExportWithoutIntents ==
  (script \in ConsoleScripts \cup {"live"} /\ Collected /\ Len(intentList) = 0) =>
    /\ spc \in {"check", "stopped"}
    /\ ExportEvents = {}

\* ---------------------------------------------------------------------
\* C29: the node the Puppeteer script clicks for a row

\* C29: in the Puppeteer script the k-th row was collected from the k-th
\* level-3 node; the click made for row k is a click on that node, and the
\* detail stored in row k is the detail panel of that node, also when another
\* level-3 node carries the same name.
C29_ClicksOwnNode ==
  (script = "live" /\ Collected) =>
    /\ \A k \in 1..Cardinality(EventsOf("read")) :
         LET p == EventAt("read", k)
         IN  /\ p > 1
             /\ events[p - 1] = <<"click", Level3[events[p][2]]>>
    /\ \A k \in 1..Len(intentList) :
         intentList[k].detail \in {0, Level3[k]}
    /\ spc = "done" => \A k \in 1..Len(intentList) : intentList[k].detail = Level3[k]

\* ---------------------------------------------------------------------
\* C30: the topics of the static script

\* the level-2 nodes of the saved page
Level2 == {q \in 1..Len(dom) : dom[q].level = 2}

\* the category a level-2 node stands under
CategoryOf(q) == NameAt(LastBefore(q, 1, 0))

\* the rows that carry the category and topic of the level-2 node q
RowsOfTopic(q) ==
  {k \in 1..Len(intentList) :
     /\ intentList[k].category = CategoryOf(q)
     /\ intentList[k].topic = dom[q].name}

IsPlaceholderRow(k) == intentList[k].intent = PLACEHOLDER

\* C30: once the static script has its rows, the category and topic of every
\* level-2 node are on at least one row; a topic none of the intent rows
\* carries has a placeholder row, which stands after all intent rows; a
\* topic that an intent row carries has no placeholder row.
C30_NoTopicLost ==
  (script = "static" /\ Collected) =>
    \A q \in Level2 :
      /\ RowsOfTopic(q) # {}
      /\ (\A k \in RowsOfTopic(q) : k > Len(Level3)) =>
           \E k \in RowsOfTopic(q) : IsPlaceholderRow(k) /\ k > Len(Level3)
      /\ (\E k \in RowsOfTopic(q) : k <= Len(Level3)) =>
           \A k \in RowsOfTopic(q) : ~IsPlaceholderRow(k)

====
